---- MODULE Spec2Model ----
(***************************************************************************)
(* Model of the ask_alma ingestion pipeline: the sentence/clause chunk     *)
(* packer (sentence_chunk_text) and the per-run deduplicating driver       *)
(* (process_jsonl_files).                                                  *)
(*                                                                         *)
(* Text is a sequence of one-character strings.  Python's 0-based,         *)
(* half-open, clamping slices are modelled by PySlice / PyTail.            *)
(***************************************************************************)
EXTENDS Integers, Sequences, FiniteSets, TLC

(* ------------------------------ bounds --------------------------------- *)
\* longest input text (sum of the sentence lengths) the chunker is run on
MaxText == 4
\* most sentences the sentence tokenizer returns for one text
MaxSentences == 1
\* largest min_chars / max_chars / overlap_chars tried
MaxMin == 3
MaxMax == 2
MaxOverlap == 1

\* most files in one run of process_jsonl_files, most lines in one file
MaxFiles == 2
MaxLines == 1
\* the most words a professor's name has in a modelled question
MaxNameWords == 2
\* most rows of the documents table for a plain question, for a comparison
MaxRows == 7
MaxReviewRows == 4
\* most chunks given to embed_corpus, largest batch size
MaxChunks == 3
MaxBatchSize == 2
\* most runs of the embedding script on the same chunks
MaxRuns == 2
\* most chunks of a bundle, most runs of an upload script; BATCH is the
\* scripts' 500 in the scale of the bundles
MaxBundle == 3
MaxUploads == 2
BATCH == 2

\* the characters of the modelled texts: a letter, a blank, a clause separator
Alphabet == {"a", " ", ","}

(* --------------------------- string helpers ---------------------------- *)
IsSpace(c) == c = " "

\* the separators of re.split(r'([,;])', s)
IsSep(c) == c \in {",", ";"}

Min2(a, b) == IF a < b THEN a ELSE b

\* s[lo:hi] for 0 <= lo, 0 <= hi (Python clamps both to len(s))
PySlice(s, lo, hi) ==
    LET h == Min2(hi, Len(s))
    IN  IF lo >= h THEN <<>> ELSE SubSeq(s, lo + 1, h)

\* s[-n:] for n >= 0; s[-0:] is s[0:], the whole string
PyTail(s, n) ==
    IF n = 0 \/ n >= Len(s) THEN s ELSE SubSeq(s, Len(s) - n + 1, Len(s))

RECURSIVE lstrip(_)
lstrip(s) ==
    IF s = <<>> THEN s
    ELSE IF IsSpace(Head(s)) THEN lstrip(Tail(s)) ELSE s

RECURSIVE rstrip(_)
rstrip(s) ==
    IF s = <<>> THEN s
    ELSE IF IsSpace(s[Len(s)]) THEN rstrip(SubSeq(s, 1, Len(s) - 1)) ELSE s

\* str.strip()
strip(s) == rstrip(lstrip(s))

RECURSIVE find_from(_, _)
find_from(s, i) ==
    IF i > Len(s) THEN -1
    ELSE IF IsSpace(s[i]) THEN i - 1 ELSE find_from(s, i + 1)

\* str.find(' '): 0-based index of the first blank, -1 when there is none
find_space(s) == find_from(s, 1)

RECURSIVE re_split_acc(_, _)
re_split_acc(s, piece) ==
    IF s = <<>> THEN <<piece>>
    ELSE IF IsSep(Head(s))
         THEN <<piece, <<Head(s)>>>> \o re_split_acc(Tail(s), <<>>)
         ELSE re_split_acc(Tail(s), Append(piece, Head(s)))

\* re.split(r'([,;])', s): the pieces between separators and the separators
re_split(s) == re_split_acc(s, <<>>)

\* a + " " + b
JoinSp(a, b) == a \o <<" ">> \o b

(* --------------- sentence_chunk_text (src/chunking) -------------------- *)
\* the chunker's locals as one record
ChunkState(ch, cur, ob) == [chunks |-> ch, current |-> cur, overlap_buffer |-> ob]

EmptyChunkState == ChunkState(<<>>, <<>>, <<>>)

\* part = part[max_chars:].strip()
SliceRest(part, maxc) == strip(PySlice(part, maxc, Len(part)))

\* one iteration of `while len(part) > max_chars`
HardSliceStep(st, part, maxc, ov) ==
    LET overlap_text == IF maxc > ov THEN PySlice(part, maxc - ov, maxc)
                                     ELSE PySlice(part, 0, maxc)
    IN  [st |-> ChunkState(Append(st.chunks, PySlice(part, 0, maxc)),
                           st.current,
                           IF strip(overlap_text) # <<>> THEN <<overlap_text>> ELSE <<>>),
         part |-> SliceRest(part, maxc)]

\* test_current = current + (" " + part if current else part)
TestCurrent(cur, part) == IF cur # <<>> THEN JoinSp(cur, part) ELSE part

\* the overlap buffer built when `current` is closed (lines 54-62)
OverlapSeed(cur, ov) ==
    IF Len(cur) >= ov
    THEN LET tail0 == strip(PyTail(cur, ov))
             first_space == find_space(tail0)
             overlap_text == IF first_space > 0
                             THEN PySlice(tail0, first_space + 1, Len(tail0))
                             ELSE tail0
         IN  IF overlap_text # <<>> THEN <<overlap_text>> ELSE <<>>
    ELSE IF strip(cur) # <<>> THEN <<strip(cur)>> ELSE <<>>

\* the buffer a new passage starts with after a close (lines 65-69);
\* " ".join of the one-element overlap buffer is that element
StartAfterClose(ob, part) ==
    IF ob # <<>>
    THEN IF ob[1] # <<>> THEN JoinSp(ob[1], part) ELSE part
    ELSE part

\* does this part close `current` (lines 49-51)?
Closes(st, part, minc, maxc) ==
    /\ Len(TestCurrent(st.current, part)) > maxc
    /\ st.current # <<>>
    /\ Len(strip(st.current)) >= minc

\* the packing of one part whose length is <= max_chars (lines 46-74)
PackPart(st, part, minc, maxc, ov) ==
    IF Closes(st, part, minc, maxc)
    THEN LET ob == OverlapSeed(st.current, ov)
         IN  ChunkState(Append(st.chunks, strip(st.current)),
                        StartAfterClose(ob, part), ob)
    ELSE ChunkState(st.chunks, TestCurrent(st.current, part), st.overlap_buffer)

\* the final chunk handling without its `elif current:` branch: a trailing
\* buffer below min_chars is not returned
FinalizeChunksDropsShort(st, minc) ==
    IF st.current # <<>> /\ Len(strip(st.current)) >= minc
    THEN Append(st.chunks, strip(st.current))
    ELSE st.chunks

\* the final chunk handling (lines 77-85)
FinalizeChunks(st, minc) ==
    IF st.current # <<>> /\ Len(strip(st.current)) >= minc
    THEN Append(st.chunks, strip(st.current))
    ELSE IF st.current # <<>>
         THEN IF st.chunks # <<>>
              THEN [st.chunks EXCEPT ![Len(st.chunks)] = JoinSp(@, strip(st.current))]
              ELSE Append(st.chunks, strip(st.current))
         ELSE st.chunks

\* the whole `while len(part) > max_chars` loop
RECURSIVE SliceAll(_, _, _, _)
SliceAll(st, part, maxc, ov) ==
    IF Len(part) > maxc
    THEN LET r == HardSliceStep(st, part, maxc, ov)
         IN  SliceAll(r.st, r.part, maxc, ov)
    ELSE [st |-> st, part |-> part]

\* the body of `for part in parts` for the parts of one sentence
RECURSIVE PackParts(_, _, _, _, _)
PackParts(st, ps, minc, maxc, ov) ==
    IF ps = <<>> THEN st
    ELSE LET p == strip(Head(ps))
         IN  IF p = <<>>
             THEN PackParts(st, Tail(ps), minc, maxc, ov)
             ELSE LET r == SliceAll(st, p, maxc, ov)
                  IN  PackParts(PackPart(r.st, r.part, minc, maxc, ov),
                                Tail(ps), minc, maxc, ov)

\* the body of `for s in sentences`
RECURSIVE PackSentences(_, _, _, _, _)
PackSentences(st, ss, minc, maxc, ov) ==
    IF ss = <<>> THEN st
    ELSE PackSentences(PackParts(st, re_split(Head(ss)), minc, maxc, ov),
                       Tail(ss), minc, maxc, ov)

\* sentence_chunk_text on a text the tokenizer split into the sentences ss
sentence_chunk_text(ss, minc, maxc, ov) ==
    FinalizeChunks(PackSentences(EmptyChunkState, ss, minc, maxc, ov), minc)

(* ---------- sentence_chunk_text (backend/rag_pipeline/chunking) -------- *)
\* the shortest overlap tail the backend chunker keeps: min(20, overlap_chars)
SeedFloor == 20

RECURSIVE combine_acc(_, _)
combine_acc(ps, acc) ==
    IF ps = <<>> THEN acc
    ELSE LET p == Head(ps)
         IN  IF acc = <<>> THEN combine_acc(Tail(ps), <<p>>)
             ELSE IF p \in {<<",">>, <<";">>}
                  THEN combine_acc(Tail(ps), [acc EXCEPT ![Len(acc)] = @ \o p])
                  ELSE combine_acc(Tail(ps), Append(acc, p))

\* `combined`: every separator is glued to the piece before it
combined(ps) == combine_acc(ps, <<>>)

\* push_current(): emit the stripped buffer, if any, and empty it
push_current(st) ==
    IF st.current # <<>>
    THEN ChunkState(Append(st.chunks, strip(st.current)), <<>>, st.overlap_buffer)
    ELSE st

\* one iteration of the backend's `while len(part) > max_chars`
BackendSliceStep(st, part, maxc) ==
    IF st.current = <<>>
    THEN [st |-> ChunkState(Append(st.chunks, strip(PySlice(part, 0, maxc))),
                            st.current, st.overlap_buffer),
          part |-> SliceRest(part, maxc)]
    ELSE [st |-> push_current(st), part |-> part]

\* the buffer started after a push, with the overlap tail of `prev`
BackendSeeded(prev, part, maxc, ov) ==
    IF ov > 0
    THEN LET tail0 == PyTail(prev, ov)
             room == maxc - Len(part) - 1
             tail1 == IF room > 0 /\ Len(tail0) > room THEN PyTail(tail0, room)
                                                       ELSE tail0
         IN  IF Len(tail1) >= Min2(SeedFloor, ov)
             THEN strip(JoinSp(tail1, part))
             ELSE part
    ELSE part

\* the backend's packing of one part (after its hard-split loop)
BackendPackPart(st, part, maxc, ov) ==
    IF st.current = <<>>
    THEN ChunkState(st.chunks, part, st.overlap_buffer)
    ELSE IF Len(st.current) + 1 + Len(part) <= maxc
         THEN ChunkState(st.chunks, JoinSp(st.current, part), st.overlap_buffer)
         ELSE ChunkState(push_current(st).chunks,
                         BackendSeeded(st.current, part, maxc, ov),
                         st.overlap_buffer)

\* the backend's final push and merge of an undersized last chunk
BackendFinalize(st, minc, maxc) ==
    LET ch == push_current(st).chunks
        n == Len(ch)
    IN  IF n >= 2 /\ Len(ch[n]) < minc
        THEN IF Len(ch[n - 1]) + 1 + Len(ch[n]) <= maxc
             THEN Append(SubSeq(ch, 1, n - 2), strip(JoinSp(ch[n - 1], ch[n])))
             ELSE ch
        ELSE ch

RECURSIVE BackendSliceAll(_, _, _)
BackendSliceAll(st, part, maxc) ==
    IF Len(part) > maxc
    THEN LET r == BackendSliceStep(st, part, maxc)
         IN  BackendSliceAll(r.st, r.part, maxc)
    ELSE [st |-> st, part |-> part]

RECURSIVE BackendPackParts(_, _, _, _)
BackendPackParts(st, ps, maxc, ov) ==
    IF ps = <<>> THEN st
    ELSE LET r == BackendSliceAll(st, strip(Head(ps)), maxc)
         IN  BackendPackParts(BackendPackPart(r.st, r.part, maxc, ov),
                              Tail(ps), maxc, ov)

RECURSIVE BackendPackSentences(_, _, _, _)
BackendPackSentences(st, ss, maxc, ov) ==
    IF ss = <<>> THEN st
    ELSE BackendPackSentences(
             BackendPackParts(st, combined(re_split(Head(ss))), maxc, ov),
             Tail(ss), maxc, ov)

\* the backend's sentence_chunk_text(text, max_chars, overlap_chars,
\* min_chunk_chars) on a text the tokenizer split into the sentences ss
sentence_chunk_text_backend(ss, maxc, ov, minc) ==
    BackendFinalize(BackendPackSentences(EmptyChunkState, ss, maxc, ov), minc, maxc)

(* ------------------- the chunker as a state machine -------------------- *)
VARIABLES
    impl,            \* which copy runs: "src" (src/chunking, also copied into
                     \* chunk_culpa_reviews.py) or "backend" (rag_pipeline)
    sentences,       \* what the sentence tokenizer returned for the text
    s_idx,           \* sentences taken by `for s in sentences` so far
    parts,           \* the parts of the current sentence not yet taken
    part,            \* the part being processed
    current,         \* the growing buffer
    chunks,          \* the passages completed so far
    overlap_buffer,  \* the overlap seed, a list of at most one string
    min_chars,       \* min_chars; the backend's min_chunk_chars
    max_chars, overlap_chars,
    pc               \* "fetch": at `for part in parts`; "while": at the
                     \* hard-split loop test; "done": returned

cvars == <<impl, sentences, s_idx, parts, part, current, chunks, overlap_buffer,
           min_chars, max_chars, overlap_chars, pc>>

\* the state of process_jsonl_files, idle while the chunker is run on its own
VARIABLES
    f_idx,            \* files opened so far
    l_idx,            \* lines of the open file read so far
    line,             \* the line read last
    page,             \* the passages of that line's page
    c_idx,            \* passages of the page enumerated so far (enumerate's i)
    data,             \* the records collected
    seen_chunks,      \* the fingerprints seen
    duplicate_count,
    presented,        \* history: every passage enumerated in the run, in order
    jpc               \* "file": at `for filename`; "line": at `for line`;
                      \* "chunk": at `for i, chunk`; "done": returned;
                      \* "raised": left by an exception

jvars == <<f_idx, l_idx, line, page, c_idx, data, seen_chunks, duplicate_count,
           presented, jpc>>

\* the state of detect_professor_comparison, idle unless it is run on its own
VARIABLES
    question,         \* the question, as its words in order
    p_idx,            \* patterns tried so far by `for pattern in patterns`
    d_result,         \* what the function returned
    dpc               \* "loop": at `for pattern in patterns`; "done": returned

dvars == <<question, p_idx, d_result, dpc>>

\* the state of one /api/chat request and its call of rag_answer
VARIABLES
    school,           \* profile.get("school"), "" when there is none
    corpus,           \* the rows of the documents table
    reversed,         \* the second professor's query vector orders the rows
                      \* by similarity the other way round than the first's
    school_rows,      \* what the in-tier query returned
    general_rows,     \* what the backfill query returned
    prof1_rows,       \* what the query for the first professor returned
    prof2_rows,       \* what the query for the second professor returned
    rows,             \* the match list under construction
    issued,           \* history: the statements executed, with their limits
    response,         \* what chat() sent back
    rpc               \* the position in chat() and rag_answer()

rvars == <<school, corpus, reversed, school_rows, general_rows, prof1_rows,
           prof2_rows, rows, issued, response, rpc>>

\* the state of one run of embed_corpus for one model
VARIABLES
    n_chunks,         \* len(chunks)
    batch_size,
    vectors,          \* the vectors collected, each named by its chunk's index
    processed_count,
    batch_idx,        \* batches of `batches` left behind by the batch loop
    attempt,          \* `attempt` of the retry loop
    waits,            \* history: the delays slept for the current batch
    calls,            \* history: the calls of embed_documents, each with
                      \* its batch and its outcome
    checkpoint,       \* the two checkpoint files of the model name: the
                      \* vector array (npy) and the progress marker
    runs,             \* how many times the script has been started
    epc               \* "batch": at the batch loop; "try": at the call of
                      \* embed_documents; "fallback": in the per-item
                      \* fallback; "done": returned; "raised": left by an
                      \* exception

evars == <<n_chunks, batch_size, vectors, processed_count, batch_idx, attempt,
           waits, calls, checkpoint, runs, epc>>

\* upload_embeddings.py and upload_culpa_embeddings.py
VARIABLES
    script,           \* which script runs
    bundle,           \* the lines of the meta file with their embedding rows
    documents,        \* the committed rows of the documents table
    pending,          \* the rows as the script's connection sees them
    start,            \* `start` of the batch loop
    snapshots,        \* history: the committed table when the first run
                      \* started and at the end of each run
    upc               \* "prepare", "insert", "done", "failed"

uvars == <<script, bundle, documents, pending, start, snapshots, upc>>

\* what the chunker and the ingestion driver leave alone
qvars == <<dvars, rvars, evars, uvars>>

\* detect_professor_comparison is not observed
DIdle ==
    /\ question = <<>>
    /\ p_idx = 0
    /\ d_result = <<>>
    /\ dpc = "idle"

\* no response yet
NoResponse == [status |-> 0, keys |-> {}, sources |-> <<>>]

\* no request is being served
RIdle ==
    /\ school = ""
    /\ corpus = <<>>
    /\ reversed = FALSE
    /\ school_rows = <<>>
    /\ general_rows = <<>>
    /\ prof1_rows = <<>>
    /\ prof2_rows = <<>>
    /\ rows = <<>>
    /\ issued = <<>>
    /\ response = NoResponse
    /\ rpc = "idle"

\* no checkpoint on disk
NoCheckpoint ==
    [npy |-> FALSE, vectors |-> <<>>, progress |-> FALSE, processed_count |-> 0]

\* embed_corpus is not running
EIdle ==
    /\ n_chunks = 0
    /\ batch_size = 1
    /\ vectors = <<>>
    /\ processed_count = 0
    /\ batch_idx = 0
    /\ attempt = 0
    /\ waits = <<>>
    /\ calls = <<>>
    /\ checkpoint = NoCheckpoint
    /\ runs = 0
    /\ epc = "idle"

\* no upload script is running
UIdle ==
    /\ script = ""
    /\ bundle = <<>>
    /\ documents = {}
    /\ pending = {}
    /\ start = 0
    /\ snapshots = <<>>
    /\ upc = "idle"

QIdle == DIdle /\ RIdle /\ EIdle /\ UIdle

SeqsUpTo(S, n) == UNION {[1..k -> S] : k \in 0..n}

\* a sentence as the tokenizer returns it: not blank, no outer whitespace
SentenceSet == {s \in SeqsUpTo(Alphabet, MaxText) : s # <<>> /\ strip(s) = s}

RECURSIVE InputsOf(_, _)
InputsOf(n, budget) ==
    IF n = 0 THEN {<<>>}
    ELSE {<<>>} \cup
         UNION {{<<s>> \o r : r \in InputsOf(n - 1, budget - Len(s))} :
                s \in {x \in SentenceSet : Len(x) <= budget}}

\* the tokenized texts the chunker is run on
Inputs == InputsOf(MaxSentences, MaxText)

CInit ==
    /\ impl \in {"src", "backend"}
    /\ sentences \in Inputs
    /\ min_chars \in 1..MaxMin
    /\ max_chars \in 1..MaxMax
    /\ overlap_chars \in 0..MaxOverlap
    /\ s_idx = 0
    /\ parts = <<>>
    /\ part = <<>>
    /\ current = <<>>
    /\ chunks = <<>>
    /\ overlap_buffer = <<>>
    /\ pc = "fetch"

CState == ChunkState(chunks, current, overlap_buffer)

\* for s in sentences: parts = re.split(r'([,;])', s)
NextSentence ==
    /\ impl = "src"
    /\ pc = "fetch"
    /\ parts = <<>>
    /\ s_idx < Len(sentences)
    /\ s_idx' = s_idx + 1
    /\ parts' = re_split(sentences[s_idx + 1])
    /\ UNCHANGED <<impl, sentences, part, current, chunks, overlap_buffer,
                   min_chars, max_chars, overlap_chars, pc>>
    /\ UNCHANGED <<jvars, qvars>>

\* part = part.strip(); if not part: continue
SkipPart ==
    /\ impl = "src"
    /\ pc = "fetch"
    /\ parts # <<>>
    /\ strip(Head(parts)) = <<>>
    /\ parts' = Tail(parts)
    /\ UNCHANGED <<impl, sentences, s_idx, part, current, chunks, overlap_buffer,
                   min_chars, max_chars, overlap_chars, pc>>
    /\ UNCHANGED <<jvars, qvars>>

\* part = part.strip(), not empty: enter the hard-split loop
TakePart ==
    /\ impl = "src"
    /\ pc = "fetch"
    /\ parts # <<>>
    /\ strip(Head(parts)) # <<>>
    /\ part' = strip(Head(parts))
    /\ parts' = Tail(parts)
    /\ pc' = "while"
    /\ UNCHANGED <<impl, sentences, s_idx, current, chunks, overlap_buffer,
                   min_chars, max_chars, overlap_chars>>
    /\ UNCHANGED <<jvars, qvars>>

\* while len(part) > max_chars: one hard split
HardSlice ==
    /\ impl = "src"
    /\ pc = "while"
    /\ Len(part) > max_chars
    /\ LET r == HardSliceStep(CState, part, max_chars, overlap_chars)
       IN  /\ chunks' = r.st.chunks
           /\ current' = r.st.current
           /\ overlap_buffer' = r.st.overlap_buffer
           /\ part' = r.part
    /\ UNCHANGED <<impl, sentences, s_idx, parts, min_chars, max_chars, overlap_chars, pc>>
    /\ UNCHANGED <<jvars, qvars>>

\* Pack with min_chars as a hard gate: a part that does not fit waits until
\* the buffer has reached min_chars, which it then never does
PackBlocking ==
    /\ impl = "src"
    /\ pc = "while"
    /\ Len(part) <= max_chars
    /\ \/ Len(TestCurrent(current, part)) <= max_chars
       \/ Closes(CState, part, min_chars, max_chars)
    /\ LET st == PackPart(CState, part, min_chars, max_chars, overlap_chars)
       IN  /\ chunks' = st.chunks
           /\ current' = st.current
           /\ overlap_buffer' = st.overlap_buffer
    /\ pc' = "fetch"
    /\ UNCHANGED <<impl, sentences, s_idx, parts, part, min_chars, max_chars, overlap_chars>>
    /\ UNCHANGED <<jvars, qvars>>

\* the loop is left: pack the part into the buffer
Pack ==
    /\ impl = "src"
    /\ pc = "while"
    /\ Len(part) <= max_chars
    /\ LET st == PackPart(CState, part, min_chars, max_chars, overlap_chars)
       IN  /\ chunks' = st.chunks
           /\ current' = st.current
           /\ overlap_buffer' = st.overlap_buffer
    /\ pc' = "fetch"
    /\ UNCHANGED <<impl, sentences, s_idx, parts, part, min_chars, max_chars, overlap_chars>>
    /\ UNCHANGED <<jvars, qvars>>

\* both loops are exhausted: handle the trailing buffer and return
Finalize ==
    /\ impl = "src"
    /\ pc = "fetch"
    /\ parts = <<>>
    /\ s_idx = Len(sentences)
    /\ chunks' = FinalizeChunks(CState, min_chars)
    /\ pc' = "done"
    /\ UNCHANGED <<impl, sentences, s_idx, parts, part, current, overlap_buffer,
                   min_chars, max_chars, overlap_chars>>
    /\ UNCHANGED <<jvars, qvars>>

\* backend: for s in sentences: parts = re.split(...); combined = ...
NextSentenceBackend ==
    /\ impl = "backend"
    /\ pc = "fetch"
    /\ parts = <<>>
    /\ s_idx < Len(sentences)
    /\ s_idx' = s_idx + 1
    /\ parts' = combined(re_split(sentences[s_idx + 1]))
    /\ UNCHANGED <<impl, sentences, part, current, chunks, overlap_buffer,
                   min_chars, max_chars, overlap_chars, pc>>
    /\ UNCHANGED <<jvars, qvars>>

\* backend: part = part.strip(); empty parts are not skipped
TakePartBackend ==
    /\ impl = "backend"
    /\ pc = "fetch"
    /\ parts # <<>>
    /\ part' = strip(Head(parts))
    /\ parts' = Tail(parts)
    /\ pc' = "while"
    /\ UNCHANGED <<impl, sentences, s_idx, current, chunks, overlap_buffer,
                   min_chars, max_chars, overlap_chars>>
    /\ UNCHANGED <<jvars, qvars>>

\* backend: one iteration of `while len(part) > max_chars`
HardSliceBackend ==
    /\ impl = "backend"
    /\ pc = "while"
    /\ Len(part) > max_chars
    /\ LET r == BackendSliceStep(CState, part, max_chars)
       IN  /\ chunks' = r.st.chunks
           /\ current' = r.st.current
           /\ part' = r.part
    /\ UNCHANGED <<impl, sentences, s_idx, parts, overlap_buffer,
                   min_chars, max_chars, overlap_chars, pc>>
    /\ UNCHANGED <<jvars, qvars>>

\* backend: the loop is left, pack the part
PackBackend ==
    /\ impl = "backend"
    /\ pc = "while"
    /\ Len(part) <= max_chars
    /\ LET st == BackendPackPart(CState, part, max_chars, overlap_chars)
       IN  /\ chunks' = st.chunks
           /\ current' = st.current
    /\ pc' = "fetch"
    /\ UNCHANGED <<impl, sentences, s_idx, parts, part, overlap_buffer,
                   min_chars, max_chars, overlap_chars>>
    /\ UNCHANGED <<jvars, qvars>>

\* backend: push the trailing buffer, merge an undersized last chunk, return
FinalizeBackend ==
    /\ impl = "backend"
    /\ pc = "fetch"
    /\ parts = <<>>
    /\ s_idx = Len(sentences)
    /\ chunks' = BackendFinalize(CState, min_chars, max_chars)
    /\ current' = <<>>
    /\ pc' = "done"
    /\ UNCHANGED <<impl, sentences, s_idx, parts, part, overlap_buffer,
                   min_chars, max_chars, overlap_chars>>
    /\ UNCHANGED <<jvars, qvars>>

CNext ==
    \/ NextSentence \/ SkipPart \/ TakePart \/ HardSlice \/ Pack \/ Finalize
    \/ NextSentenceBackend \/ TakePartBackend \/ HardSliceBackend
    \/ PackBackend \/ FinalizeBackend

(* ------------------ process_jsonl_files (src/chunking) ----------------- *)
\* str.lower() on the letters of the modelled page texts
lower_char(c) == IF c = "A" THEN "a" ELSE IF c = "B" THEN "b" ELSE c

lower(s) == [i \in 1..Len(s) |-> lower_char(s[i])]

\* the normalization without the case folding
normalized_chunk_cased(chunk) == strip(chunk)

\* normalized_chunk = chunk.strip().lower()
normalized_chunk(chunk) == lower(strip(chunk))

\* hashlib.md5(...).hexdigest(): a fixed-length fingerprint, taken as free of
\* collisions on the modelled texts
md5_hexdigest(s) == <<"md5", s>>

RequiredFields == {"page_content", "source", "page_index"}

\* the tokenized page texts of the modelled input lines
JTexts == {<< <<"a", " ", "a">> >>, << <<"A", ",", "b">> >>, << <<"a", "A", "b">> >>}

\* the (min_chars, max_chars, overlap_chars) the runs are started with
JSettings == {<<1, 2, 1>>, <<1, 1, 0>>}

\* an entry as convert_json_to_jsonl writes it: the source names the file,
\* page_index counts the file's pages from 1
Entry(text, f, l) ==
    [page_content |-> text, source |-> <<"file", f>>, page_index |-> l]

\* the entry without the field k
Without(e, k) == [x \in (DOMAIN e) \ {k} |-> e[x]]

\* a line that json.loads accepts, and one it rejects
JsonLine(e) == [json |-> TRUE, entry |-> e]
NotJsonLine == [json |-> FALSE, entry |-> <<>>]

\* the lines that can stand at line l of file f
LinesAt(f, l) ==
    {JsonLine(Entry(t, f, l)) : t \in JTexts}
    \cup {JsonLine(Without(Entry(t, f, l), k)) : t \in {<< <<"a", " ", "a">> >>}, k \in RequiredFields}
    \cup {NotJsonLine}

\* json.loads(line) and the three entry[...] lookups succeed
WellFormed(ln) == ln.json /\ RequiredFields \subseteq DOMAIN ln.entry

NoLine == [json |-> FALSE, entry |-> <<"none">>]

\* the loop's accumulators as one record
RunState(d, seen, dup) == [data |-> d, seen_chunks |-> seen, duplicate_count |-> dup]

\* the loop body with the record put in place of the earlier one
ProcessChunkKeepLast(st, chunk, i, source, page_index) ==
    LET chunk_hash == md5_hexdigest(normalized_chunk(chunk))
        rec == [source |-> source, page_index |-> page_index,
                chunk_id |-> i, text |-> chunk]
    IN  IF chunk_hash \notin st.seen_chunks
        THEN RunState(Append(st.data, rec), st.seen_chunks \cup {chunk_hash},
                      st.duplicate_count)
        ELSE RunState([k \in 1..Len(st.data) |->
                          IF md5_hexdigest(normalized_chunk(st.data[k].text)) = chunk_hash
                          THEN rec ELSE st.data[k]],
                      st.seen_chunks, st.duplicate_count + 1)

\* the loop body with chunk_id counted from 1
ProcessChunkOneBased(st, chunk, i, source, page_index) ==
    LET chunk_hash == md5_hexdigest(normalized_chunk(chunk))
    IN  IF chunk_hash \notin st.seen_chunks
        THEN RunState(Append(st.data, [source |-> source, page_index |-> page_index,
                                       chunk_id |-> i + 1, text |-> chunk]),
                      st.seen_chunks \cup {chunk_hash}, st.duplicate_count)
        ELSE RunState(st.data, st.seen_chunks, st.duplicate_count + 1)

\* the body of `for i, chunk in enumerate(...)` (lines 117-133)
ProcessChunk(st, chunk, i, source, page_index) ==
    LET chunk_hash == md5_hexdigest(normalized_chunk(chunk))
    IN  IF chunk_hash \notin st.seen_chunks
        THEN RunState(Append(st.data, [source |-> source, page_index |-> page_index,
                                       chunk_id |-> i, text |-> chunk]),
                      st.seen_chunks \cup {chunk_hash}, st.duplicate_count)
        ELSE RunState(st.data, st.seen_chunks, st.duplicate_count + 1)


\* the chunker is not observed while the driver runs
CIdle ==
    /\ impl = "src"
    /\ sentences = <<>>
    /\ s_idx = 0
    /\ parts = <<>>
    /\ part = <<>>
    /\ current = <<>>
    /\ chunks = <<>>
    /\ overlap_buffer = <<>>
    /\ pc = "idle"

\* the driver is not observed while the chunker runs
JIdle ==
    /\ f_idx = 0
    /\ l_idx = 0
    /\ line = NoLine
    /\ page = <<>>
    /\ c_idx = 0
    /\ data = <<>>
    /\ seen_chunks = {}
    /\ duplicate_count = 0
    /\ presented = <<>>
    /\ jpc = "idle"

JInit ==
    /\ CIdle
    /\ QIdle
    /\ \E st \in JSettings :
         /\ min_chars = st[1]
         /\ max_chars = st[2]
         /\ overlap_chars = st[3]
    /\ f_idx = 0
    /\ l_idx = 0
    /\ line = NoLine
    /\ page = <<>>
    /\ c_idx = 0
    /\ data = <<>>
    /\ seen_chunks = {}
    /\ duplicate_count = 0
    /\ presented = <<>>
    /\ jpc = "file"

JState == RunState(data, seen_chunks, duplicate_count)

\* for filename in filenames: open it and read its lines
OpenFile ==
    /\ jpc = "file"
    /\ f_idx < MaxFiles
    /\ f_idx' = f_idx + 1
    /\ l_idx' = 0
    /\ jpc' = "line"
    /\ UNCHANGED <<line, page, c_idx, data, seen_chunks, duplicate_count, presented>>
    /\ UNCHANGED <<cvars, qvars>>

\* a well-formed line: parse it, read its fields, chunk the page
LineOk ==
    /\ jpc = "line"
    /\ l_idx < MaxLines
    /\ \E ln \in LinesAt(f_idx, l_idx + 1) :
         /\ WellFormed(ln)
         /\ line' = ln
         /\ page' = sentence_chunk_text(ln.entry.page_content,
                                        min_chars, max_chars, overlap_chars)
    /\ l_idx' = l_idx + 1
    /\ c_idx' = 0
    /\ jpc' = IF page' = <<>> THEN "line" ELSE "chunk"
    /\ UNCHANGED <<f_idx, data, seen_chunks, duplicate_count, presented>>
    /\ UNCHANGED <<cvars, qvars>>

\* json.loads(line) raises: nothing catches it
LineNotJson ==
    /\ jpc = "line"
    /\ l_idx < MaxLines
    /\ \E ln \in LinesAt(f_idx, l_idx + 1) :
         /\ ~ln.json
         /\ line' = ln
    /\ l_idx' = l_idx + 1
    /\ jpc' = "raised"
    /\ UNCHANGED <<f_idx, page, c_idx, data, seen_chunks, duplicate_count, presented>>
    /\ UNCHANGED <<cvars, qvars>>

\* entry["page_content"], entry["source"] or entry["page_index"] raises KeyError
LineMissingField ==
    /\ jpc = "line"
    /\ l_idx < MaxLines
    /\ \E ln \in LinesAt(f_idx, l_idx + 1) :
         /\ ln.json
         /\ ~(RequiredFields \subseteq DOMAIN ln.entry)
         /\ line' = ln
    /\ l_idx' = l_idx + 1
    /\ jpc' = "raised"
    /\ UNCHANGED <<f_idx, page, c_idx, data, seen_chunks, duplicate_count, presented>>
    /\ UNCHANGED <<cvars, qvars>>

\* one iteration of `for i, chunk in enumerate(sentence_chunk_text(...))`
ChunkStep ==
    /\ jpc = "chunk"
    /\ c_idx < Len(page)
    /\ LET chunk == page[c_idx + 1]
           st == ProcessChunk(JState, chunk, c_idx,
                              line.entry.source, line.entry.page_index)
       IN  /\ data' = st.data
           /\ seen_chunks' = st.seen_chunks
           /\ duplicate_count' = st.duplicate_count
           /\ presented' = Append(presented,
                                  [text |-> chunk, source |-> line.entry.source,
                                   page_index |-> line.entry.page_index])
    /\ c_idx' = c_idx + 1
    /\ jpc' = IF c_idx + 1 = Len(page) THEN "line" ELSE "chunk"
    /\ UNCHANGED <<f_idx, l_idx, line, page>>
    /\ UNCHANGED <<cvars, qvars>>

\* the lines of the file are exhausted
EndFile ==
    /\ jpc = "line"
    /\ jpc' = "file"
    /\ UNCHANGED <<f_idx, l_idx, line, page, c_idx, data, seen_chunks,
                   duplicate_count, presented>>
    /\ UNCHANGED <<cvars, qvars>>

\* the files are exhausted: return data
Return ==
    /\ jpc = "file"
    /\ jpc' = "done"
    /\ UNCHANGED <<f_idx, l_idx, line, page, c_idx, data, seen_chunks,
                   duplicate_count, presented>>
    /\ UNCHANGED <<cvars, qvars>>

JNext ==
    \/ OpenFile \/ LineOk \/ LineNotJson \/ LineMissingField
    \/ ChunkStep \/ EndFile \/ Return

(* --------------- detect_professor_comparison (rag_query) --------------- *)
\* A question is the sequence of its words, written with single blanks
\* between them. A word is made of letters only, except the tokens of
\* NonWords, which hold no character of the class [a-zA-Z'\-].
NonWords == {".", "?", "3134"}

\* a word that [a-zA-Z\'\-]+ matches whole
IsNameWord(w) == w \notin NonWords

\* str.lower() on a word of the modelled questions
lower_word(w) ==
    IF w = "Compare" THEN "compare"
    ELSE IF w = "Professor" THEN "professor"
    ELSE lower_char(w)

\* question.lower(), without the case folding
question_cased(q) == q

\* question_lower = question.lower()
question_lower(q) == [i \in 1..Len(q) |-> lower_word(q[i])]

\* (?:and|to|with|vs\.?|versus)
Connectives == {"and", "to", "with", "vs", "versus"}

\* The five patterns in list order. Each is: the literal words before the
\* first group, those between the groups, those after the second group; the
\* literals are separated by \s+ and each group is
\* ([a-zA-Z\'\-]+(?:\s+[a-zA-Z\'\-]+)?), one word or two.
patterns == <<
    [pre |-> <<{"compare"}, {"professor"}>>,
     mid |-> <<Connectives, {"professor"}>>, post |-> <<>>],
    [pre |-> <<{"compare"}>>,
     mid |-> <<Connectives>>, post |-> <<{"for"}>>],
    [pre |-> <<{"which", "who"}, {"is"}, {"better"}, {"professor"}>>,
     mid |-> <<{"or", "vs"}, {"professor"}>>, post |-> <<>>],
    [pre |-> <<{"how"}, {"does"}, {"professor"}>>,
     mid |-> <<{"compare"}, {"to", "with"}, {"professor"}>>, post |-> <<>>],
    [pre |-> <<{"professor"}>>,
     mid |-> <<{"versus", "vs"}, {"professor"}>>, post |-> <<>> ] >>

\* the literal words lits match the words of toks from position pos on
Lits(lits, toks, pos) ==
    /\ pos + Len(lits) - 1 <= Len(toks)
    /\ \A i \in 1..Len(lits) : toks[pos + i - 1] \in lits[i]

\* a group of n words matches the words of toks from position pos on
Names(toks, pos, n) ==
    /\ pos + n - 1 <= Len(toks)
    /\ \A i \in 0..(n - 1) : IsNameWord(toks[pos + i])

\* pattern p matches at word s with groups of n1 and n2 words
MatchWith(p, toks, s, n1, n2) ==
    LET a == s + Len(p.pre)
        b == a + n1
        c == b + Len(p.mid)
        d == c + n2
    IN  /\ Lits(p.pre, toks, s)
        /\ Names(toks, a, n1)
        /\ Lits(p.mid, toks, b)
        /\ Names(toks, c, n2)
        /\ Lits(p.post, toks, d)

\* the order in which the greedy groups are tried: two words before one
GroupSizes == << <<2, 2>>, <<2, 1>>, <<1, 2>>, <<1, 1>> >>

NoMatch == [matched |-> FALSE, g1 |-> <<>>, g2 |-> <<>>]

\* the match object of pattern p at word s
MatchAt(p, toks, s) ==
    LET ok == {k \in 1..Len(GroupSizes) :
                  MatchWith(p, toks, s, GroupSizes[k][1], GroupSizes[k][2])}
    IN  IF ok = {} THEN NoMatch
        ELSE LET k == CHOOSE x \in ok : \A y \in ok : x <= y
                 a == s + Len(p.pre)
                 c == a + GroupSizes[k][1] + Len(p.mid)
             IN  [matched |-> TRUE,
                  g1 |-> SubSeq(toks, a, a + GroupSizes[k][1] - 1),
                  g2 |-> SubSeq(toks, c, c + GroupSizes[k][2] - 1)]

\* re.search(pattern, question_lower): the leftmost match
re_search(p, toks) ==
    LET at == {s \in 1..Len(toks) : MatchAt(p, toks, s).matched}
    IN  IF at = {} THEN NoMatch
        ELSE MatchAt(p, toks, CHOOSE s \in at : \A t \in at : s <= t)

\* the most words an entity may have
MaxEntityWords == 4

\* len(prof1_words) <= 4 and len(prof2_words) <= 4 and prof1 and prof2 and
\* prof1 != prof2
ValidEntities(m) ==
    /\ Len(m.g1) <= MaxEntityWords
    /\ Len(m.g2) <= MaxEntityWords
    /\ m.g1 # <<>>
    /\ m.g2 # <<>>
    /\ m.g1 # m.g2

RECURSIVE DetectFrom(_, _)
\* the loop over the patterns from pattern i on
DetectFrom(toks, i) ==
    IF i > Len(patterns) THEN <<>>
    ELSE LET m == re_search(patterns[i], toks)
         IN  IF m.matched /\ ValidEntities(m) THEN <<m.g1, m.g2>>
             ELSE DetectFrom(toks, i + 1)

\* detect_professor_comparison(question): <<prof1, prof2>>, or <<>> for None
detect_professor_comparison(q) == DetectFrom(question_lower(q), 1)

\* the letters a professor's name is written with
NameLetters == {"A", "a", "B"}

DNames == UNION {[1..k -> NameLetters] : k \in 1..MaxNameWords}

\* "Compare Professor A and Professor B"
Form1(A, B) == <<"Compare", "Professor">> \o A \o <<"and", "Professor">> \o B
\* "compare A and B for coms 3134"
Form2(A, B) == <<"compare">> \o A \o <<"and">> \o B \o <<"for", "coms", "3134">>
\* "who is better professor A or professor B"
Form3(A, B) ==
    <<"who", "is", "better", "professor">> \o A \o <<"or", "professor">> \o B
\* "how does professor A compare to professor B"
Form4(A, B) ==
    <<"how", "does", "professor">> \o A \o <<"compare", "to", "professor">> \o B
\* "professor A vs professor B"
Form5(A, B) == <<"professor">> \o A \o <<"vs", "professor">> \o B
\* "Compare Professor A and Professor A . professor A vs professor B"
Form15(A, B) == Form1(A, A) \o <<".">> \o Form5(A, B)
\* "what is coms 3134 about ?"
PlainQuestion == <<"what", "is", "coms", "3134", "about", "?">>

DQuestions ==
    {PlainQuestion} \cup
    UNION {{Form1(A, B), Form2(A, B), Form3(A, B), Form4(A, B), Form5(A, B),
            Form15(A, B)} : A \in DNames, B \in DNames}

DInit ==
    /\ CIdle /\ JIdle
    /\ min_chars = 1 /\ max_chars = 1 /\ overlap_chars = 0
    /\ question \in DQuestions
    /\ p_idx = 0
    /\ d_result = <<>>
    /\ dpc = "loop"
    /\ RIdle /\ EIdle /\ UIdle

\* match = re.search(pattern, question_lower, re.IGNORECASE) for the pattern
\* the loop is at
CurrentMatch == re_search(patterns[p_idx + 1], question_lower(question))

\* if match: false, next pattern
PatternMisses ==
    /\ dpc = "loop"
    /\ p_idx < Len(patterns)
    /\ ~CurrentMatch.matched
    /\ p_idx' = p_idx + 1
    /\ UNCHANGED <<question, d_result, dpc>>
    /\ UNCHANGED <<cvars, jvars, rvars, evars, uvars>>

\* the match passes the validation: return (prof1, prof2)
MatchAccepted ==
    /\ dpc = "loop"
    /\ p_idx < Len(patterns)
    /\ CurrentMatch.matched
    /\ ValidEntities(CurrentMatch)
    /\ p_idx' = p_idx + 1
    /\ d_result' = <<CurrentMatch.g1, CurrentMatch.g2>>
    /\ dpc' = "done"
    /\ UNCHANGED question
    /\ UNCHANGED <<cvars, jvars, rvars, evars, uvars>>

\* a rejected match ends the search: return None
MatchRejectedReturns ==
    /\ dpc = "loop"
    /\ p_idx < Len(patterns)
    /\ CurrentMatch.matched
    /\ ~ValidEntities(CurrentMatch)
    /\ p_idx' = p_idx + 1
    /\ d_result' = <<>>
    /\ dpc' = "done"
    /\ UNCHANGED question
    /\ UNCHANGED <<cvars, jvars, rvars, evars, uvars>>

\* the match fails the validation: the loop goes on with the next pattern
MatchRejected ==
    /\ dpc = "loop"
    /\ p_idx < Len(patterns)
    /\ CurrentMatch.matched
    /\ ~ValidEntities(CurrentMatch)
    /\ p_idx' = p_idx + 1
    /\ UNCHANGED <<question, d_result, dpc>>
    /\ UNCHANGED <<cvars, jvars, rvars, evars, uvars>>

\* the patterns are exhausted: return None
ReturnNone ==
    /\ dpc = "loop"
    /\ p_idx = Len(patterns)
    /\ d_result' = <<>>
    /\ dpc' = "done"
    /\ UNCHANGED <<question, p_idx>>
    /\ UNCHANGED <<cvars, jvars, rvars, evars, uvars>>

DNext == PatternMisses \/ MatchAccepted \/ MatchRejected \/ ReturnNone

(* ------------------- retrieval in rag_answer (rag_query) --------------- *)
\* how many chunks to retrieve
TOP_K == 6

\* the values of SCHOOL_SOURCE_PATTERNS
SCHOOL_SOURCE_PATTERNS ==
    [columbia_college |-> "%columbia_college%",
     columbia_engineering |-> "%columbia_engineering%",
     barnard |-> "%barnard%"]

\* the always-included review category: source ILIKE 'culpa.info%'
CulpaPattern == "culpa.info%"

\* the sources of the modelled rows: the bulletin of a Columbia school, the
\* bulletin of Barnard, a review
Sources == {"columbia_college_bulletin", "barnard_bulletin",
            "culpa.info - prof"}

\* the one pattern of the program that a modelled source matches
FragmentOf(source) ==
    CASE source = "columbia_college_bulletin" -> "%columbia_college%"
      [] source = "barnard_bulletin" -> "%barnard%"
      [] source = "culpa.info - prof" -> CulpaPattern
      [] OTHER -> "none"

\* query parameters as psycopg2 binds them
TextParam(like) == [kind |-> "text", like |-> like, name |-> <<>>, n |-> 0]
\* Python None, bound as NULL
NullParam == [kind |-> "null", like |-> "", name |-> <<>>, n |-> 0]
\* f"%{professor_name}%"
ProfParam(name) == [kind |-> "text", like |-> "%prof%", name |-> name, n |-> 0]
\* vec_literal of the embedding of query v
VecParam(v) == [kind |-> "vector", like |-> v, name |-> <<>>, n |-> 0]
IntParam(n) == [kind |-> "int", like |-> "", name |-> <<>>, n |-> n]

\* SQL's three truth values: "t", "f" and "n" for NULL
Or3(a, b) ==
    IF a = "t" \/ b = "t" THEN "t" ELSE IF a = "n" \/ b = "n" THEN "n" ELSE "f"

And3(a, b) ==
    IF a = "f" \/ b = "f" THEN "f" ELSE IF a = "n" \/ b = "n" THEN "n" ELSE "t"

Not3(a) == IF a = "t" THEN "f" ELSE IF a = "f" THEN "t" ELSE "n"

\* source ILIKE p
ILike(source, p) ==
    IF p.kind = "null" THEN "n"
    ELSE IF p.kind = "text" /\ p.like = FragmentOf(source) THEN "t" ELSE "f"

\* content ILIKE p OR source ILIKE p for the pattern of a professor's name
ProfLike(row, p) ==
    IF p.kind = "null" THEN "n"
    ELSE IF p.kind = "text" /\ p.name \in row.mentions THEN "t" ELSE "f"

RECURSIVE OrAll(_, _)
\* source ILIKE p1 OR source ILIKE p2 OR ...
OrAll(source, ps) ==
    IF ps = <<>> THEN "f"
    ELSE Or3(ILike(source, Head(ps)), OrAll(source, Tail(ps)))

RECURSIVE AndNotAll(_, _)
\* source NOT ILIKE p1 AND source NOT ILIKE p2 AND ...
AndNotAll(source, ps) ==
    IF ps = <<>> THEN "t"
    ELSE And3(Not3(ILike(source, Head(ps))), AndNotAll(source, Tail(ps)))

\* n times "source ILIKE %s" or "source NOT ILIKE %s"
PatternSlots(n) == [i \in 1..n |-> "pattern"]

\* The statements of rag_answer and retrieve_for_professor: the kinds of
\* their %s placeholders in the order of the text, and their where clause.
school_sql(n) ==
    [kinds |-> <<"vector">> \o PatternSlots(n) \o <<"vector", "limit">>,
     where |-> "included or culpa"]

general_sql(n) ==
    [kinds |-> <<"vector">> \o PatternSlots(n) \o <<"vector", "limit">>,
     where |-> "not excluded or culpa"]

culpa_sql == [kinds |-> <<"vector", "vector", "limit">>, where |-> "culpa"]

base_sql == [kinds |-> <<"vector", "vector", "limit">>, where |-> "all"]

prof_school_sql(n) ==
    [kinds |-> <<"vector">> \o PatternSlots(n + 2) \o <<"vector", "limit">>,
     where |-> "(included or culpa) and prof"]

prof_culpa_sql ==
    [kinds |-> <<"vector", "pattern", "pattern", "vector", "limit">>,
     where |-> "culpa and prof"]

prof_sql ==
    [kinds |-> <<"vector", "pattern", "pattern", "vector", "limit">>,
     where |-> "prof"]

\* the parameters fit the placeholders: a ::vector cast needs a vector
\* literal and a limit needs a number; a pattern slot takes any string or NULL
BindOk(sql, params) ==
    /\ Len(params) = Len(sql.kinds)
    /\ \A i \in 1..Len(params) :
         /\ sql.kinds[i] = "vector" => params[i].kind = "vector"
         /\ sql.kinds[i] = "limit" => params[i].kind = "int"
         /\ sql.kinds[i] = "pattern" => params[i].kind \in {"text", "vector", "null"}

\* the parameters bound to the pattern slots, in order
PatternParams(sql, params) ==
    SubSeq(params, 2, Len(params) - 2)

\* the where clause of the statement on a row of the table
Where(sql, params, row) ==
    LET ps == PatternParams(sql, params)
        culpa == ILike(row.source, TextParam(CulpaPattern))
        np == Len(ps)
    IN  CASE sql.where = "included or culpa" -> Or3(OrAll(row.source, ps), culpa)
          [] sql.where = "not excluded or culpa" ->
                Or3(AndNotAll(row.source, ps), culpa)
          [] sql.where = "culpa" -> culpa
          [] sql.where = "all" -> "t"
          [] sql.where = "(included or culpa) and prof" ->
                And3(Or3(OrAll(row.source, SubSeq(ps, 1, np - 2)), culpa),
                     Or3(ProfLike(row, ps[np - 1]), ProfLike(row, ps[np])))
          [] sql.where = "culpa and prof" ->
                And3(culpa, Or3(ProfLike(row, ps[np - 1]), ProfLike(row, ps[np])))
          [] sql.where = "prof" ->
                Or3(ProfLike(row, ps[np - 1]), ProfLike(row, ps[np]))

\* 1 - (embedding <=> v): the similarity of row id of a table of n rows to
\* the query vector v. The question's and the first professor's vector rank
\* the rows by id, the second professor's the same way or the other way round.
Similarity(id, v, n, rev) ==
    IF v = "p2" /\ rev THEN id ELSE n + 1 - id

RECURSIVE SelectTop(_, _, _, _, _, _)
\* select id, content, similarity, source ... order by embedding <=> o
\* limit lim, over the rows S of a table of n rows
SelectTop(S, v, o, lim, n, rev) ==
    IF lim = 0 \/ S = {} THEN <<>>
    ELSE LET r == CHOOSE x \in S : \A y \in S :
                      Similarity(y.id, o, n, rev) <= Similarity(x.id, o, n, rev)
         IN  <<[id |-> r.id, content |-> r.mentions, source |-> r.source,
                similarity |-> Similarity(r.id, v, n, rev)]>>
             \o SelectTop(S \ {r}, v, o, lim - 1, n, rev)

\* the rows of the table as a set
TableRows(table) == {table[i] : i \in 1..Len(table)}

\* the statement without its limit
ExecuteUnlimited(sql, params, table, rev) ==
    IF ~BindOk(sql, params) THEN [ok |-> FALSE, rows |-> <<>>]
    ELSE [ok |-> TRUE,
          rows |-> SelectTop({r \in TableRows(table) : Where(sql, params, r) = "t"},
                             params[1].like, params[Len(params) - 1].like,
                             Len(table), Len(table), rev)]

\* cur.execute(sql, params); cur.fetchall(): the rows, or ok = FALSE when the
\* database rejects the statement
Execute(sql, params, table, rev) ==
    IF ~BindOk(sql, params) THEN [ok |-> FALSE, rows |-> <<>>]
    ELSE [ok |-> TRUE,
          rows |-> SelectTop({r \in TableRows(table) : Where(sql, params, r) = "t"},
                             params[1].like, params[Len(params) - 1].like,
                             params[Len(params)].n, Len(table), rev)]

\* school_filter: `set` is false for None; an empty list stands for None too
NoFilter == [set |-> FALSE, included |-> <<>>, excluded |-> <<>>]

\* get_school_source_filter(school): (included_patterns, excluded_patterns)
get_school_source_filter(sch) ==
    IF sch = "" THEN NoFilter
    ELSE IF sch \in {"columbia_college", "columbia_engineering"}
    THEN [set |-> TRUE,
          included |-> <<TextParam(SCHOOL_SOURCE_PATTERNS.columbia_college),
                         TextParam(SCHOOL_SOURCE_PATTERNS.columbia_engineering)>>,
          excluded |-> <<TextParam(SCHOOL_SOURCE_PATTERNS.barnard)>>]
    ELSE IF sch = "barnard"
    THEN [set |-> TRUE,
          included |-> <<TextParam(SCHOOL_SOURCE_PATTERNS.barnard)>>,
          excluded |-> <<TextParam(SCHOOL_SOURCE_PATTERNS.columbia_college),
                         TextParam(SCHOOL_SOURCE_PATTERNS.columbia_engineering)>>]
    ELSE \* SCHOOL_SOURCE_PATTERNS.get(school) is None for any other key
         [set |-> TRUE, included |-> <<NullParam>>, excluded |-> <<>>]

\* the professor's rows of every source, whatever the school filter
retrieve_for_professor_unfiltered(name, v, filter, limit, table, rev) ==
    Execute(prof_sql,
            <<VecParam(v), ProfParam(name), ProfParam(name), VecParam(v),
              IntParam(limit)>>, table, rev)

\* retrieve_for_professor(professor_name, ..., school_filter, limit), v the
\* embedding of the query made for the professor
retrieve_for_professor(name, v, filter, limit, table, rev) ==
    LET pp == ProfParam(name)
        tail == <<pp, pp, VecParam(v), IntParam(limit)>>
    IN  IF filter.set
        THEN IF filter.included # <<>>
             THEN Execute(prof_school_sql(Len(filter.included)),
                          <<VecParam(v)>> \o filter.included \o tail, table, rev)
             ELSE Execute(prof_culpa_sql, <<VecParam(v)>> \o tail, table, rev)
        ELSE Execute(prof_sql, <<VecParam(v)>> \o tail, table, rev)

\* the in-tier statement without its restriction to the tier
SchoolStatementUnrestricted(filter) ==
    [sql |-> base_sql,
     params |-> <<VecParam("q"), VecParam("q"), IntParam(TOP_K)>>]

\* the in-tier statement of rag_answer with its parameters
SchoolStatement(filter) ==
    IF filter.included # <<>>
    THEN [sql |-> school_sql(Len(filter.included)),
          params |-> <<VecParam("q")>> \o filter.included
                     \o <<VecParam("q"), IntParam(TOP_K)>>]
    ELSE [sql |-> culpa_sql,
          params |-> <<VecParam("q"), VecParam("q"), IntParam(TOP_K)>>]

\* the backfill statement of rag_answer with its parameters
GeneralStatement(filter, remaining) ==
    IF filter.excluded # <<>>
    THEN [sql |-> general_sql(Len(filter.excluded)),
          params |-> filter.excluded
                     \o <<VecParam("q"), VecParam("q"), IntParam(remaining)>>]
    ELSE [sql |-> culpa_sql,
          params |-> <<VecParam("q"), VecParam("q"), IntParam(remaining)>>]

\* {row["id"] for row in rows}
IdsOf(rs) == {rs[i].id : i \in 1..Len(rs)}

RECURSIVE AppendNew(_, _)
\* for row in new: if row["id"] not in seen: rows.append(row); seen.add(...)
AppendNew(acc, new) ==
    IF new = <<>> THEN acc
    ELSE IF Head(new).id \in IdsOf(acc) THEN AppendNew(acc, Tail(new))
    ELSE AppendNew(Append(acc, Head(new)), Tail(new))

RECURSIVE AppendNewUpTo(_, _)
\* the same with `if len(rows) >= TOP_K: break` after an append
AppendNewUpTo(acc, new) ==
    IF new = <<>> THEN acc
    ELSE IF Head(new).id \in IdsOf(acc) THEN AppendNewUpTo(acc, Tail(new))
    ELSE IF Len(acc) + 1 >= TOP_K THEN Append(acc, Head(new))
    ELSE AppendNewUpTo(Append(acc, Head(new)), Tail(new))

\* x goes behind the rows that are at least as similar
InsertDesc(rs, x) ==
    LET k == Cardinality({i \in 1..Len(rs) : rs[i].similarity >= x.similarity})
    IN  SubSeq(rs, 1, k) \o <<x>> \o SubSeq(rs, k + 1, Len(rs))

RECURSIVE SortedDesc(_)
\* sorted(rows, key=lambda x: x["similarity"], reverse=True), a stable sort
SortedDesc(rs) ==
    IF rs = <<>> THEN <<>>
    ELSE InsertDesc(SortedDesc(SubSeq(rs, 1, Len(rs) - 1)), rs[Len(rs)])

\* sorted(...)[:TOP_K]
SortedTop(rs) == PySlice(SortedDesc(rs), 0, TOP_K)

\* TOP_K // 2
per_prof_limit == TOP_K \div 2

\* the modelled profile values: no school, the three known keys, another key
Schools == {"", "columbia_college", "columbia_engineering", "barnard",
            "general_studies"}

\* the modelled questions: none, a plain one, a comparison
RQuestions == {<<>>, PlainQuestion, Form1(<<"A">>, <<"B">>)}

\* tables for a plain question: no row mentions a professor
PlainTables ==
    UNION {{[i \in 1..k |-> [id |-> i, source |-> f[i], mentions |-> {}]] :
              f \in [1..k -> Sources]} : k \in 0..MaxRows}

\* the rows a comparison can retrieve: a review or a bulletin, mentioning
\* the first professor, the second or both
ReviewRows ==
    [source : {"culpa.info - prof", "barnard_bulletin"},
     mentions : {{<<"a">>}, {<<"b">>}, {<<"a">>, <<"b">>}}]

ReviewTables ==
    UNION {{[i \in 1..k |-> [id |-> i, source |-> f[i].source,
                              mentions |-> f[i].mentions]] :
              f \in [1..k -> ReviewRows]} : k \in 0..MaxReviewRows}

\* comparison = detect_professor_comparison(question)
Comparison == detect_professor_comparison(question)

\* school_filter = get_school_source_filter(school_value)
school_filter == get_school_source_filter(school)

RInit ==
    /\ CIdle /\ JIdle /\ EIdle /\ UIdle
    /\ min_chars = 1 /\ max_chars = 1 /\ overlap_chars = 0
    /\ p_idx = 0 /\ d_result = <<>> /\ dpc = "idle"
    /\ question \in RQuestions
    /\ school \in Schools
    /\ IF question = <<>> THEN corpus = <<>> /\ reversed = FALSE
       ELSE IF detect_professor_comparison(question) = <<>>
       THEN corpus \in PlainTables /\ reversed = FALSE
       ELSE corpus \in ReviewTables /\ reversed \in BOOLEAN
    /\ school_rows = <<>>
    /\ general_rows = <<>>
    /\ prof1_rows = <<>>
    /\ prof2_rows = <<>>
    /\ rows = <<>>
    /\ issued = <<>>
    /\ response = NoResponse
    /\ rpc = "chat"

\* the entry of the statement log
Issued(name, limit, res) ==
    [stmt |-> name, limit |-> limit, ok |-> res.ok, count |-> Len(res.rows)]

\* chat(): if not question: return 400
ChatMissingQuestion ==
    /\ rpc = "chat"
    /\ question = <<>>
    /\ response' = [status |-> 400, keys |-> {"error"}, sources |-> <<>>]
    /\ rpc' = "responded"
    /\ UNCHANGED <<school, corpus, reversed, school_rows, general_rows,
                   prof1_rows, prof2_rows, rows, issued>>
    /\ UNCHANGED <<cvars, jvars, dvars, evars, uvars>>

\* chat() calls rag_answer, which gets to the choice of the retrieval path
StartRetrieval ==
    /\ rpc = "chat"
    /\ question # <<>>
    /\ rows' = <<>>
    /\ rpc' = IF Comparison # <<>> THEN "prof1"
              ELSE IF school_filter.set THEN "tier" ELSE "base"
    /\ UNCHANGED <<school, corpus, reversed, school_rows, general_rows,
                   prof1_rows, prof2_rows, issued, response>>
    /\ UNCHANGED <<cvars, jvars, dvars, evars, uvars>>

\* prof1_rows = retrieve_for_professor(prof1, ..., per_prof_limit)
RetrieveProf1 ==
    /\ rpc = "prof1"
    /\ LET res == retrieve_for_professor(Comparison[1], "p1", school_filter,
                                         per_prof_limit, corpus, reversed)
       IN  /\ prof1_rows' = res.rows
           /\ issued' = Append(issued, Issued("prof1", per_prof_limit, res))
           /\ rpc' = IF res.ok THEN "prof2" ELSE "raised"
    /\ UNCHANGED <<school, corpus, reversed, school_rows, general_rows,
                   prof2_rows, rows, response>>
    /\ UNCHANGED <<cvars, jvars, dvars, evars, uvars>>

\* prof2_rows = retrieve_for_professor(prof2, ..., per_prof_limit)
RetrieveProf2 ==
    /\ rpc = "prof2"
    /\ LET res == retrieve_for_professor(Comparison[2], "p2", school_filter,
                                         per_prof_limit, corpus, reversed)
       IN  /\ prof2_rows' = res.rows
           /\ issued' = Append(issued, Issued("prof2", per_prof_limit, res))
           /\ rpc' = IF res.ok THEN "merge" ELSE "raised"
    /\ UNCHANGED <<school, corpus, reversed, school_rows, general_rows,
                   prof1_rows, rows, response>>
    /\ UNCHANGED <<cvars, jvars, dvars, evars, uvars>>

\* combine the two results without duplicates, sort by similarity, cut
MergeComparison ==
    /\ rpc = "merge"
    /\ rows' = SortedTop(AppendNew(rows, prof1_rows \o prof2_rows))
    /\ rpc' = "answer"
    /\ UNCHANGED <<school, corpus, reversed, school_rows, general_rows,
                   prof1_rows, prof2_rows, issued, response>>
    /\ UNCHANGED <<cvars, jvars, dvars, evars, uvars>>

\* the in-tier query, followed by the backfill query whatever it returned
InTierQueryAlwaysBackfills ==
    /\ rpc = "tier"
    /\ LET st == SchoolStatement(school_filter)
           res == Execute(st.sql, st.params, corpus, reversed)
       IN  /\ school_rows' = res.rows
           /\ rows' = rows \o res.rows
           /\ issued' = Append(issued, Issued("school", TOP_K, res))
           /\ rpc' = IF ~res.ok THEN "raised" ELSE "backfill"
    /\ UNCHANGED <<school, corpus, reversed, general_rows, prof1_rows,
                   prof2_rows, response>>
    /\ UNCHANGED <<cvars, jvars, dvars, evars, uvars>>

\* step 1 of the tiered path: the in-tier query; rows.extend(school_rows)
InTierQuery ==
    /\ rpc = "tier"
    /\ LET st == SchoolStatement(school_filter)
           res == Execute(st.sql, st.params, corpus, reversed)
       IN  /\ school_rows' = res.rows
           /\ rows' = rows \o res.rows
           /\ issued' = Append(issued, Issued("school", TOP_K, res))
           /\ rpc' = IF ~res.ok THEN "raised"
                     ELSE IF Len(rows \o res.rows) < TOP_K THEN "backfill"
                     ELSE "sort"
    /\ UNCHANGED <<school, corpus, reversed, general_rows, prof1_rows,
                   prof2_rows, response>>
    /\ UNCHANGED <<cvars, jvars, dvars, evars, uvars>>

\* step 2: the backfill query for remaining = TOP_K - len(rows) rows, and
\* the appending of the rows that are new
BackfillQuery ==
    /\ rpc = "backfill"
    /\ LET remaining == TOP_K - Len(rows)
           st == GeneralStatement(school_filter, remaining)
           res == Execute(st.sql, st.params, corpus, reversed)
       IN  /\ general_rows' = res.rows
           /\ rows' = IF res.ok THEN AppendNewUpTo(rows, res.rows) ELSE rows
           /\ issued' = Append(issued, Issued("general", remaining, res))
           /\ rpc' = IF res.ok THEN "sort" ELSE "raised"
    /\ UNCHANGED <<school, corpus, reversed, school_rows, prof1_rows,
                   prof2_rows, response>>
    /\ UNCHANGED <<cvars, jvars, dvars, evars, uvars>>

\* rows = sorted(rows, key=similarity, reverse=True)[:TOP_K]
SortTiered ==
    /\ rpc = "sort"
    /\ rows' = SortedTop(rows)
    /\ rpc' = "answer"
    /\ UNCHANGED <<school, corpus, reversed, school_rows, general_rows,
                   prof1_rows, prof2_rows, issued, response>>
    /\ UNCHANGED <<cvars, jvars, dvars, evars, uvars>>

\* no school filter: the general top-k query
BaseQuery ==
    /\ rpc = "base"
    /\ LET res == Execute(base_sql,
                          <<VecParam("q"), VecParam("q"), IntParam(TOP_K)>>,
                          corpus, reversed)
       IN  /\ rows' = res.rows
           /\ issued' = Append(issued, Issued("base", TOP_K, res))
           /\ rpc' = IF res.ok THEN "answer" ELSE "raised"
    /\ UNCHANGED <<school, corpus, reversed, school_rows, general_rows,
                   prof1_rows, prof2_rows, response>>
    /\ UNCHANGED <<cvars, jvars, dvars, evars, uvars>>

\* contexts, prompt, answer, saving: rag_answer returns with "matches": rows
Answer ==
    /\ rpc = "answer"
    /\ rpc' = "returned"
    /\ UNCHANGED <<school, corpus, reversed, school_rows, general_rows,
                   prof1_rows, prof2_rows, rows, issued, response>>
    /\ UNCHANGED <<cvars, jvars, dvars, evars, uvars>>

\* chat() formats the result: the top 5 sources
ChatResponds ==
    /\ rpc = "returned"
    /\ response' = [status |-> 200,
                    keys |-> {"conversation_id", "answer", "sources", "model"},
                    sources |-> [i \in 1..Min2(5, Len(rows)) |-> rows[i].id]]
    /\ rpc' = "responded"
    /\ UNCHANGED <<school, corpus, reversed, school_rows, general_rows,
                   prof1_rows, prof2_rows, rows, issued>>
    /\ UNCHANGED <<cvars, jvars, dvars, evars, uvars>>

\* chat(): except Exception: return 500
ChatFails ==
    /\ rpc = "raised"
    /\ response' = [status |-> 500, keys |-> {"error", "traceback"},
                    sources |-> <<>>]
    /\ rpc' = "responded"
    /\ UNCHANGED <<school, corpus, reversed, school_rows, general_rows,
                   prof1_rows, prof2_rows, rows, issued>>
    /\ UNCHANGED <<cvars, jvars, dvars, evars, uvars>>

RNext ==
    \/ ChatMissingQuestion \/ StartRetrieval
    \/ RetrieveProf1 \/ RetrieveProf2 \/ MergeComparison
    \/ InTierQuery \/ BackfillQuery \/ SortTiered \/ BaseQuery
    \/ Answer \/ ChatResponds \/ ChatFails

(* --------------------- embed_corpus (embedder.py) ---------------------- *)
\* Retry logic for rate limits
max_retries == 5

retry_delay == 2

\* len(list(_batch(chunks, batch_size)))
NumBatches(n, size) == (n + size - 1) \div size

\* the chunks of batch b (counted from 1), by their indices
BatchOf(b, n, size) ==
    [i \in 1..(Min2(b * size, n) - (b - 1) * size) |-> (b - 1) * size + i]

\* the vectors of all chunks, in the order of the chunks
AllVectors(n) == [i \in 1..n |-> i]

\* the checkpoint files found by the first run: none, or those that a run of
\* embedder.py's main on another corpus left after its first batch (the
\* scripts share ./emb_out and the model name); 0 is a vector of a chunk of
\* the other corpus
StartCheckpoints(n, size) ==
    {NoCheckpoint,
     [npy |-> TRUE, vectors |-> [i \in 1..size |-> 0],
      progress |-> TRUE, processed_count |-> size]}

\* the outcomes of embedder.embed_documents(batch)
Outcomes == {"ok", "rate_limit", "error", "type_error"}

\* os.path.exists(checkpoint_path) and os.path.exists(progress_path)
CheckpointFound == checkpoint.npy /\ checkpoint.progress

EInit ==
    /\ CIdle /\ JIdle /\ DIdle /\ RIdle /\ UIdle
    /\ min_chars = 1 /\ max_chars = 1 /\ overlap_chars = 0
    /\ n_chunks \in 0..MaxChunks
    /\ batch_size \in 1..MaxBatchSize
    /\ checkpoint \in StartCheckpoints(n_chunks, batch_size)
    /\ vectors = <<>>
    /\ processed_count = 0
    /\ batch_idx = 0
    /\ attempt = 0
    /\ waits = <<>>
    /\ calls = <<>>
    /\ runs = 1
    /\ epc = "load"

\* load_checkpoint, then start_batch = processed_count // batch_size and
\* batches_to_process = batches[start_batch:]
LoadCheckpoint ==
    /\ epc = "load"
    /\ vectors' = IF CheckpointFound THEN checkpoint.vectors ELSE <<>>
    /\ processed_count' = IF CheckpointFound THEN checkpoint.processed_count ELSE 0
    /\ batch_idx' = (IF CheckpointFound THEN checkpoint.processed_count ELSE 0)
                       \div batch_size
    /\ epc' = "batch"
    /\ UNCHANGED <<n_chunks, batch_size, attempt, waits, calls, checkpoint, runs>>
    /\ UNCHANGED <<cvars, jvars, dvars, rvars, uvars>>

\* the batch loop takes the next batch: attempt 0 of the retry loop
NextBatch ==
    /\ epc = "batch"
    /\ batch_idx < NumBatches(n_chunks, batch_size)
    /\ attempt' = 0
    /\ waits' = <<>>
    /\ epc' = "try"
    /\ UNCHANGED <<n_chunks, batch_size, vectors, processed_count, batch_idx,
                   calls, checkpoint, runs>>
    /\ UNCHANGED <<cvars, jvars, dvars, rvars, uvars>>

\* the entry of the call log
Call(outcome) == [batch |-> batch_idx + 1, outcome |-> outcome]

\* embed_documents succeeds: extend the vectors, count the batch, go on to
\* save_checkpoint
EmbedOk ==
    /\ epc = "try"
    /\ LET batch == BatchOf(batch_idx + 1, n_chunks, batch_size)
       IN  /\ vectors' = vectors \o batch
           /\ processed_count' = processed_count + Len(batch)
    /\ calls' = Append(calls, Call("ok"))
    /\ epc' = "save_vectors"
    /\ UNCHANGED <<n_chunks, batch_size, batch_idx, attempt, waits, checkpoint,
                   runs>>
    /\ UNCHANGED <<cvars, jvars, dvars, rvars, uvars>>

\* save_checkpoint, first write: np.save(checkpoint_path, np.array(vectors)),
\* after a successful batch or before the raise of an exhausted retry loop
SaveVectors ==
    /\ epc \in {"save_vectors", "abort_vectors"}
    /\ checkpoint' = [checkpoint EXCEPT !.npy = TRUE, !.vectors = vectors]
    /\ epc' = IF epc = "save_vectors" THEN "save_progress" ELSE "abort_progress"
    /\ UNCHANGED <<n_chunks, batch_size, vectors, processed_count, batch_idx,
                   attempt, waits, calls, runs>>
    /\ UNCHANGED <<cvars, jvars, dvars, rvars, uvars>>

\* save_checkpoint, second write: the progress file; then `break` and the
\* next batch, or `raise`
SaveProgress ==
    /\ epc \in {"save_progress", "abort_progress"}
    /\ checkpoint' = [checkpoint EXCEPT !.progress = TRUE,
                                        !.processed_count = processed_count]
    /\ batch_idx' = IF epc = "save_progress" THEN batch_idx + 1 ELSE batch_idx
    /\ epc' = IF epc = "save_progress" THEN "batch" ELSE "raised"
    /\ UNCHANGED <<n_chunks, batch_size, vectors, processed_count, attempt,
                   waits, calls, runs>>
    /\ UNCHANGED <<cvars, jvars, dvars, rvars, uvars>>

\* a rate limit makes the batch loop go on with the next batch
EmbedRateLimitedSkips ==
    /\ epc = "try"
    /\ attempt < max_retries - 1
    /\ waits' = Append(waits, retry_delay * (2 ^ attempt))
    /\ calls' = Append(calls, Call("rate_limit"))
    /\ batch_idx' = batch_idx + 1
    /\ epc' = "batch"
    /\ UNCHANGED <<n_chunks, batch_size, vectors, processed_count, attempt,
                   checkpoint, runs>>
    /\ UNCHANGED <<cvars, jvars, dvars, rvars, uvars>>

\* a rate limit before the last attempt: sleep retry_delay * 2 ** attempt,
\* then the next attempt on the same batch
EmbedRateLimited ==
    /\ epc = "try"
    /\ attempt < max_retries - 1
    /\ waits' = Append(waits, retry_delay * (2 ^ attempt))
    /\ calls' = Append(calls, Call("rate_limit"))
    /\ attempt' = attempt + 1
    /\ UNCHANGED <<n_chunks, batch_size, vectors, processed_count, batch_idx,
                   checkpoint, epc, runs>>
    /\ UNCHANGED <<cvars, jvars, dvars, rvars, uvars>>

\* a rate limit on the last attempt: save the checkpoint and raise
EmbedRateLimitExhausted ==
    /\ epc = "try"
    /\ attempt = max_retries - 1
    /\ calls' = Append(calls, Call("rate_limit"))
    /\ epc' = "abort_vectors"
    /\ UNCHANGED <<n_chunks, batch_size, vectors, processed_count, batch_idx,
                   attempt, waits, checkpoint, runs>>
    /\ UNCHANGED <<cvars, jvars, dvars, rvars, uvars>>

\* another exception than a rate limit or a TypeError: raise
EmbedFails ==
    /\ epc = "try"
    /\ calls' = Append(calls, Call("error"))
    /\ epc' = "raised"
    /\ UNCHANGED <<n_chunks, batch_size, vectors, processed_count, batch_idx,
                   attempt, waits, checkpoint, runs>>
    /\ UNCHANGED <<cvars, jvars, dvars, rvars, uvars>>

\* a TypeError is raised again by the retry loop and caught by
\* `except TypeError`
EmbedTypeError ==
    /\ epc = "try"
    /\ calls' = Append(calls, Call("type_error"))
    /\ epc' = "fallback"
    /\ UNCHANGED <<n_chunks, batch_size, vectors, processed_count, batch_idx,
                   attempt, waits, checkpoint, runs>>
    /\ UNCHANGED <<cvars, jvars, dvars, rvars, uvars>>

\* the fallback: for t in chunks: vectors.append(embedder.embed_query(t))
FallbackPerItem ==
    /\ epc = "fallback"
    /\ vectors' = vectors \o AllVectors(n_chunks)
    /\ epc' = "finish"
    /\ UNCHANGED <<n_chunks, batch_size, processed_count, batch_idx, attempt,
                   waits, calls, checkpoint, runs>>
    /\ UNCHANGED <<cvars, jvars, dvars, rvars, uvars>>

\* the batch loop is over
BatchesDone ==
    /\ epc = "batch"
    /\ batch_idx >= NumBatches(n_chunks, batch_size)
    /\ epc' = "finish"
    /\ UNCHANGED <<n_chunks, batch_size, vectors, processed_count, batch_idx,
                   attempt, waits, calls, checkpoint, runs>>
    /\ UNCHANGED <<cvars, jvars, dvars, rvars, uvars>>

\* results[model_name] = ...; clear_checkpoint removes the vector file
FinishModel ==
    /\ epc = "finish"
    /\ vectors # <<>>
    /\ checkpoint' = [checkpoint EXCEPT !.npy = FALSE, !.vectors = <<>>]
    /\ epc' = "clear_progress"
    /\ UNCHANGED <<n_chunks, batch_size, vectors, processed_count, batch_idx,
                   attempt, waits, calls, runs>>
    /\ UNCHANGED <<cvars, jvars, dvars, rvars, uvars>>

\* clear_checkpoint removes the progress file; return results
ClearProgress ==
    /\ epc = "clear_progress"
    /\ checkpoint' = [checkpoint EXCEPT !.progress = FALSE,
                                        !.processed_count = 0]
    /\ epc' = "done"
    /\ UNCHANGED <<n_chunks, batch_size, vectors, processed_count, batch_idx,
                   attempt, waits, calls, runs>>
    /\ UNCHANGED <<cvars, jvars, dvars, rvars, uvars>>

\* arr.shape[1] if arr.ndim == 2 else len(arr[0]): without a vector the
\* array has one dimension and arr[0] raises IndexError
ResultFails ==
    /\ epc = "finish"
    /\ vectors = <<>>
    /\ epc' = "raised"
    /\ UNCHANGED <<n_chunks, batch_size, vectors, processed_count, batch_idx,
                   attempt, waits, calls, checkpoint, runs>>
    /\ UNCHANGED <<cvars, jvars, dvars, rvars, uvars>>

\* where the process runs and can be stopped from outside
Running == {"load", "batch", "try", "save_vectors", "save_progress",
            "abort_vectors", "abort_progress", "fallback", "finish",
            "clear_progress"}

\* the process is stopped (Ctrl-C, a crash): the files stay as they are
Interrupt ==
    /\ epc \in Running
    /\ epc' = "killed"
    /\ UNCHANGED <<n_chunks, batch_size, vectors, processed_count, batch_idx,
                   attempt, waits, calls, checkpoint, runs>>
    /\ UNCHANGED <<cvars, jvars, dvars, rvars, uvars>>

\* "Resume by running again": the script is run again on the same chunks
\* with the same batch size
RunAgain ==
    /\ epc \in {"killed", "raised"}
    /\ runs < MaxRuns
    /\ runs' = runs + 1
    /\ vectors' = <<>>
    /\ processed_count' = 0
    /\ batch_idx' = 0
    /\ attempt' = 0
    /\ waits' = <<>>
    /\ calls' = <<>>
    /\ epc' = "load"
    /\ UNCHANGED <<n_chunks, batch_size, checkpoint>>
    /\ UNCHANGED <<cvars, jvars, dvars, rvars, uvars>>

ENext ==
    \/ LoadCheckpoint \/ NextBatch \/ EmbedOk \/ SaveVectors \/ SaveProgress
    \/ EmbedRateLimited \/ EmbedRateLimitExhausted \/ EmbedFails
    \/ EmbedTypeError \/ FallbackPerItem \/ BatchesDone \/ FinishModel
    \/ ClearProgress \/ ResultFails \/ Interrupt \/ RunAgain

(* ------- upload_embeddings.py and upload_culpa_embeddings.py ----------- *)
\* the texts of the chunks of the modelled bundles, as sequences of characters
ChunkTexts == {<<"x">>, <<"a", " ", "b">>, <<"a", "\n", "b">>}

\* hashlib.sha256(s.encode("utf-8")).hexdigest()[:16]: a fingerprint, taken
\* as free of collisions on the modelled texts
_hash_text(s) == <<"sha256", s>>

\* txt.replace('\n', ' ')
flatten(txt) == [i \in 1..Len(txt) |-> IF txt[i] = "\n" THEN " " ELSE txt[i]]

Scripts == {"upload_embeddings", "upload_culpa_embeddings"}

\* save_numpy_bundle and the reading of the meta file: the line and the
\* embedding row of chunk i. The bulletin bundle has no source column; the
\* review bundle carries the source of the chunk's metadata.
BundleRow(s, chunk) ==
    [id |-> _hash_text(chunk),
     content |-> flatten(chunk),
     source |-> IF s = "upload_embeddings" THEN "manual" ELSE "culpa.info - prof",
     model |-> IF s = "upload_embeddings" THEN "nomic-embed-text"
               ELSE "text-embedding-3-small",
     embedding |-> <<"vec", chunk>>]

\* source like 'culpa.info%'
LikeCulpa(source) == source = "culpa.info - prof"

\* rows the table may hold before the first run: a bulletin row, a review of
\* an earlier upload whose text is in no bundle, and an older version of the
\* row of chunk x
StoredRows ==
    {[id |-> _hash_text(<<"y">>), content |-> <<"y">>,
      source |-> "columbia_college_bulletin", model |-> "text-embedding-3-small",
      embedding |-> <<"vec", <<"y">> >>, created_at |-> 0],
     [id |-> _hash_text(<<"z">>), content |-> <<"z">>,
      source |-> "culpa.info - prof", model |-> "text-embedding-3-small",
      embedding |-> <<"vec", <<"z">> >>, created_at |-> 0],
     [id |-> _hash_text(<<"x">>), content |-> <<"x">>,
      source |-> "culpa.info - prof", model |-> "nomic-embed-text",
      embedding |-> <<"old", <<"x">> >>, created_at |-> 0]}

\* the bundles: up to MaxBundle chunks
Bundles == UNION {[1..n -> ChunkTexts] : n \in 0..MaxBundle}

\* the entry of the history of the table
Snapshot(rs, ok) == [rows |-> rs, committed |-> ok]

\* now() of the transaction: the number of the run
now == Len(snapshots)

UInit ==
    /\ CIdle /\ JIdle /\ DIdle /\ RIdle /\ EIdle
    /\ min_chars = 1 /\ max_chars = 1 /\ overlap_chars = 0
    /\ script \in Scripts
    /\ bundle \in Bundles
    /\ documents \in SUBSET StoredRows
    /\ pending = documents
    /\ start = 0
    /\ snapshots = <<Snapshot(documents, TRUE)>>
    /\ upc = "prepare"

n_rows == Len(bundle)

\* upload_embeddings.py up to the batch loop: create extension, table and
\* index if they do not exist, read the meta file; conn.autocommit = False
PrepareTable ==
    /\ upc = "prepare"
    /\ script = "upload_embeddings"
    /\ upc' = "insert"
    /\ UNCHANGED <<script, bundle, documents, pending, start, snapshots>>
    /\ UNCHANGED <<cvars, jvars, dvars, rvars, evars>>

\* upload_culpa_embeddings.py up to the batch loop: with autocommit on,
\* delete from documents where source like 'culpa.info%'
DeleteCulpa ==
    /\ upc = "prepare"
    /\ script = "upload_culpa_embeddings"
    /\ documents' = {r \in documents : ~LikeCulpa(r.source)}
    /\ pending' = documents'
    /\ upc' = "insert"
    /\ UNCHANGED <<script, bundle, start, snapshots>>
    /\ UNCHANGED <<cvars, jvars, dvars, rvars, evars>>

RECURSIVE SkipDuplicates(_, _)
\* upload_culpa_embeddings.py: if ids[i] in seen_ids: continue
SkipDuplicates(rs, seen_ids) ==
    IF rs = <<>> THEN <<>>
    ELSE IF Head(rs).id \in seen_ids THEN SkipDuplicates(Tail(rs), seen_ids)
    ELSE <<Head(rs)>> \o SkipDuplicates(Tail(rs), seen_ids \cup {Head(rs).id})

\* batch_rows of the batch that begins behind `start`
batch_rows ==
    LET end == Min2(start + BATCH, n_rows)
        all == [i \in 1..(end - start) |-> BundleRow(script, bundle[start + i])]
    IN  IF script = "upload_culpa_embeddings" THEN SkipDuplicates(all, {})
        ELSE all

\* the statement proposes two rows with one id: "ON CONFLICT DO UPDATE
\* command cannot affect row a second time" (execute_values sends up to 100
\* rows, here a whole batch, as one statement)
AffectsRowTwice(rs) == \E i, j \in 1..Len(rs) : i # j /\ rs[i].id = rs[j].id

\* insert ... on conflict (id) do nothing
UpsertKeepsStored(T, rs, t) ==
    T \cup {[id |-> rs[i].id, content |-> rs[i].content, source |-> rs[i].source,
             model |-> rs[i].model, embedding |-> rs[i].embedding,
             created_at |-> t] :
               i \in {k \in 1..Len(rs) : \A r \in T : r.id # rs[k].id}}

\* insert ... on conflict (id) do update set content, source, model,
\* embedding = excluded..., created_at = now()
Upsert(T, rs, t) ==
    {r \in T : \A i \in 1..Len(rs) : rs[i].id # r.id}
      \cup {[id |-> rs[i].id, content |-> rs[i].content, source |-> rs[i].source,
             model |-> rs[i].model, embedding |-> rs[i].embedding,
             created_at |-> t] : i \in 1..Len(rs)}

\* one round of the batch loop: execute_values succeeds
UpsertBatch ==
    /\ upc = "insert"
    /\ start < n_rows
    /\ ~AffectsRowTwice(batch_rows)
    /\ pending' = Upsert(pending, batch_rows, now)
    /\ start' = Min2(start + BATCH, n_rows)
    /\ UNCHANGED <<script, bundle, documents, snapshots, upc>>
    /\ UNCHANGED <<cvars, jvars, dvars, rvars, evars>>

\* execute_values raises (the statement is rejected, the connection is
\* lost): conn.rollback(), sys.exit
UpsertFails ==
    /\ upc = "insert"
    /\ start < n_rows
    /\ pending' = documents
    /\ snapshots' = Append(snapshots, Snapshot(documents, FALSE))
    /\ upc' = "failed"
    /\ UNCHANGED <<script, bundle, documents, start>>
    /\ UNCHANGED <<cvars, jvars, dvars, rvars, evars>>

\* after the loop: analyze; conn.commit()
Commit ==
    /\ upc = "insert"
    /\ start >= n_rows
    /\ documents' = pending
    /\ snapshots' = Append(snapshots, Snapshot(pending, TRUE))
    /\ upc' = "done"
    /\ UNCHANGED <<script, bundle, pending, start>>
    /\ UNCHANGED <<cvars, jvars, dvars, rvars, evars>>

\* the script is run again on the same bundle
UploadAgain ==
    /\ upc \in {"done", "failed"}
    /\ Len(snapshots) <= MaxUploads
    /\ pending' = documents
    /\ start' = 0
    /\ upc' = "prepare"
    /\ UNCHANGED <<script, bundle, documents, snapshots>>
    /\ UNCHANGED <<cvars, jvars, dvars, rvars, evars>>

UNext ==
    \/ PrepareTable \/ DeleteCulpa \/ UpsertBatch \/ UpsertFails \/ Commit
    \/ UploadAgain

vars == <<cvars, jvars, qvars>>

Init == CInit /\ JIdle /\ QIdle

Next == CNext

\* one run of process_jsonl_files
JSpec == JInit /\ [][JNext]_vars

Spec == Init /\ [][Next]_vars

\* the chunker runs to completion when it can take a step
FairSpec == Spec /\ WF_vars(Next)

\* one call of detect_professor_comparison
DSpec == DInit /\ [][DNext]_vars

\* one /api/chat request
RSpec == RInit /\ [][RNext]_vars

\* one run of embed_corpus
ESpec == EInit /\ [][ENext]_vars

\* the runs of an upload script on one bundle
USpec == UInit /\ [][UNext]_vars

TypeOK ==
    /\ pc \in {"fetch", "while", "done", "idle"}
    /\ s_idx \in 0..Len(sentences)

\* the state machine computes what the function returns
RunMatchesFunction ==
    pc = "done" =>
        chunks = IF impl = "src"
                 THEN sentence_chunk_text(sentences, min_chars, max_chars, overlap_chars)
                 ELSE sentence_chunk_text_backend(sentences, max_chars, overlap_chars, min_chars)

(* ------------------------ claims on the chunker ------------------------ *)
\* the step that closes `current` as a passage and seeds the next buffer
IsCloseStep == pc = "while" /\ pc' = "fetch" /\ Len(chunks') = Len(chunks) + 1

\* the callers' parameter settings by their order type: (min 2000, max 3000,
\* overlap 200), (min 2000, max 300, overlap 50), (min 2000, max 300,
\* overlap 200): a positive overlap below both sizes, min and max differ
CallerSetting ==
    /\ 0 < overlap_chars
    /\ overlap_chars < max_chars
    /\ overlap_chars < min_chars
    /\ min_chars # max_chars

\* C1: every passage the chunker returns has length <= max_chars.
C1_AllPassagesWithinMax ==
    pc = "done" => \A i \in 1..Len(chunks) : Len(chunks[i]) <= max_chars

\* C2: under the callers' settings every returned passage except possibly
\* the last has length >= min_chars, hard-sliced pieces included.
C2_AllButLastAtLeastMin ==
    (pc = "done" /\ CallerSetting) =>
        \A i \in 1..(Len(chunks) - 1) : Len(chunks[i]) >= min_chars

\* C3: the chunker terminates on every input for every max_chars >= 1,
\* whatever min_chars and overlap_chars are.
C3_Terminates == <>(pc = "done")

\* C3 witness: a finished run that hard-sliced an over-long part (a passage
\* of exactly max_chars that no close could produce, min_chars being larger)
\* and whose buffer stayed below min_chars while it took further parts.
C3_Witness ==
    /\ pc = "done"
    /\ min_chars > max_chars
    /\ Len(chunks) >= 2
    /\ Len(chunks[1]) = max_chars
    /\ Len(current) > max_chars

\* C4: at finalization a trailing buffer below min_chars is merged into the
\* previous passage only when the merged passage does not exceed max_chars;
\* otherwise it becomes its own final passage.
C4_MergeOnlyIfFits ==
    [][(pc = "fetch" /\ pc' = "done" /\ current # <<>> /\ chunks # <<>>
          /\ Len(strip(current)) < min_chars)
       => IF Len(chunks[Len(chunks)]) + 1 + Len(strip(current)) <= max_chars
          THEN chunks' = [chunks EXCEPT ![Len(chunks)] = JoinSp(@, strip(current))]
          ELSE chunks' = Append(chunks, strip(current))]_vars

\* C5: with overlap_chars = 0 the buffer after a close is the next part alone.
C5_ZeroOverlapNoSeed ==
    [][(IsCloseStep /\ overlap_chars = 0) => current' = part]_vars

\* is t a suffix of s?
IsSuffix(t, s) == t = <<>> \/ (Len(t) <= Len(s) /\ PyTail(s, Len(t)) = t)

\* C6: at a close the seed is a suffix of the closed passage, at most
\* overlap_chars long, and starts at a whitespace boundary of that passage.
C6_SeedIsBoundedWordSuffix ==
    [][IsCloseStep =>
         LET closed == chunks'[Len(chunks')]
             seed == IF overlap_buffer' = <<>> THEN <<>> ELSE overlap_buffer'[1]
         IN  /\ current' = (IF seed = <<>> THEN part ELSE JoinSp(seed, part))
             /\ IsSuffix(seed, closed)
             /\ Len(seed) <= overlap_chars
             /\ \/ seed = <<>>
                \/ Len(seed) = Len(closed)
                \/ IsSpace(closed[Len(closed) - Len(seed)])]_vars

(* ------------------ claims on process_jsonl_files ---------------------- *)
\* a text trimmed and lower-cased
TrimLower(x) == lower(strip(x))

\* do two passages (or records) come from the same page?
SamePage(a, b) == a.source = b.source /\ a.page_index = b.page_index

\* the first passage of the run, from the i-th on, whose normalized text is
\* nm; 0 when there is none
RECURSIVE FirstWithNorm(_, _)
FirstWithNorm(nm, i) ==
    IF i > Len(presented) THEN 0
    ELSE IF TrimLower(presented[i].text) = nm THEN i
         ELSE FirstWithNorm(nm, i + 1)

\* the texts of the passages, from the i-th on, whose normalized text is
\* neither in `seen` nor that of a passage between
RECURSIVE FirstTexts(_, _)
FirstTexts(i, seen) ==
    IF i > Len(presented) THEN <<>>
    ELSE LET nm == TrimLower(presented[i].text)
         IN  IF nm \in seen THEN FirstTexts(i + 1, seen)
             ELSE <<presented[i].text>> \o FirstTexts(i + 1, seen \cup {nm})

\* the passage a record was made from: the first one of the record's page,
\* from the i-th on, with the record's text; 0 when there is none
RECURSIVE MadeFrom(_, _)
MadeFrom(d, i) ==
    IF i > Len(presented) THEN 0
    ELSE IF SamePage(presented[i], d) /\ presented[i].text = d.text THEN i
         ELSE MadeFrom(d, i + 1)

\* the 0-based position of passage j among the passages of its page
PosInPage(j) ==
    Cardinality({i \in 1..(j - 1) : SamePage(presented[i], presented[j])})

\* C7 as claimed: the records of one page carry chunk_id 1, 2, 3, ... in
\* passage order (1-indexed per page).
C7_ChunkIdOneBased ==
    \A k \in 1..Len(data) :
        LET j == MadeFrom(data[k], 1)
        IN  j > 0 /\ data[k].chunk_id = PosInPage(j) + 1

\* C7 amended: every record carries as chunk_id the 0-based position of its
\* passage among the passages of its page, and the records of one page stand
\* in passage order (chunk_id increasing; a dropped duplicate leaves a gap).
C7_ChunkIdZeroBased ==
    /\ \A k \in 1..Len(data) :
           LET j == MadeFrom(data[k], 1)
           IN  j > 0 /\ data[k].chunk_id = PosInPage(j)
    /\ \A k1, k2 \in 1..Len(data) :
           (k1 < k2 /\ SamePage(data[k1], data[k2]))
               => data[k1].chunk_id < data[k2].chunk_id

\* C7 witness: a finished run that kept the first and the third passage of a
\* page and dropped its second.
C7_Witness ==
    /\ jpc = "done"
    /\ \E k \in 1..(Len(data) - 1) :
           /\ SamePage(data[k], data[k + 1])
           /\ data[k].chunk_id = 0
           /\ data[k + 1].chunk_id = 2

\* C8: a passage is admitted iff no earlier passage of the run has the same
\* normalized text: the records are exactly the first occurrences, in order,
\* no two records share a normalized text, every other passage is counted
\* as a duplicate.
C8_AdmittedIffFirst ==
    /\ Len(data) = Len(FirstTexts(1, {}))
    /\ \A k \in 1..Len(data) : data[k].text = FirstTexts(1, {})[k]
    /\ Cardinality({TrimLower(data[k].text) : k \in 1..Len(data)}) = Len(data)
    /\ duplicate_count = Len(presented) - Len(data)

\* C8 witness: a finished run in which one normalized text was presented
\* three times, differing in case or outer blanks, and is held once.
C8_Witness ==
    /\ jpc = "done"
    /\ \E i, j, h \in 1..Len(presented) :
           /\ i < j /\ j < h
           /\ presented[i].text # presented[j].text
           /\ TrimLower(presented[i].text) = TrimLower(presented[j].text)
           /\ TrimLower(presented[j].text) = TrimLower(presented[h].text)
    /\ Len(data) >= 2

\* C9: of the passages with one normalized text the record kept carries the
\* source and page_index of the one processed first; the later are dropped.
C9_FirstSourceWins ==
    \A k \in 1..Len(data) :
        LET j == FirstWithNorm(TrimLower(data[k].text), 1)
        IN  /\ j > 0
            /\ data[k].source = presented[j].source
            /\ data[k].page_index = presented[j].page_index

\* C9 witness: a finished run in which two files presented the same
\* normalized text.
C9_Witness ==
    /\ jpc = "done"
    /\ \E i, j \in 1..Len(presented) :
           /\ i < j
           /\ presented[i].source # presented[j].source
           /\ TrimLower(presented[i].text) = TrimLower(presented[j].text)

\* C10: a line that is not valid JSON or lacks a required field is skipped
\* and the run continues with the records collected so far.
C10_MalformedLineSkipped ==
    [][(jpc = "line" /\ l_idx' = l_idx + 1 /\ ~WellFormed(line'))
       => (jpc' = "line" /\ data' = data)]_vars

(* -------------- claims on detect_professor_comparison ------------------ *)
\* the function has returned what the loop computes
DetectMatchesFunction ==
    dpc = "done" => d_result = detect_professor_comparison(question)

\* the question reads "Compare Professor A and Professor B", A and B written
\* with the letters of names
IsForm1(q) ==
    /\ Len(q) >= 6
    /\ q[1] = "Compare" /\ q[2] = "Professor"
    /\ \E k \in 4..(Len(q) - 2) :
         /\ q[k] = "and" /\ q[k + 1] = "Professor"
         /\ \A i \in (3..(k - 1)) \cup ((k + 2)..Len(q)) : q[i] \in NameLetters

AndAt(q) == CHOOSE k \in 4..(Len(q) - 2) : q[k] = "and"

\* the two names of such a question, as written
NameA(q) == SubSeq(q, 3, AndAt(q) - 1)

NameB(q) == SubSeq(q, AndAt(q) + 2, Len(q))

\* no word of the question belongs to a comparison phrasing
NoComparisonPhrasing(q) ==
    \A i \in 1..Len(q) :
        lower_word(q[i]) \notin {"compare", "versus", "vs", "better"}

\* C18 (as stated): for "Compare Professor A and Professor B" with two
\* distinct names the function returns the names as they are written in the
\* question, and for a question without comparison phrasing it returns None
C18_NamesAsWritten ==
    dpc = "done" =>
        /\ (IsForm1(question) /\ NameA(question) # NameB(question))
              => d_result = <<NameA(question), NameB(question)>>
        /\ NoComparisonPhrasing(question) => d_result = <<>>

\* C18 (amended): for "Compare Professor A and Professor B" with names of one
\* or two words that differ when lower-cased, the function returns the two
\* names lower-cased; for a question without comparison phrasing it returns
\* None
C18_NamesLowerCased ==
    dpc = "done" =>
        /\ (/\ IsForm1(question)
            /\ Len(NameA(question)) <= 2 /\ Len(NameB(question)) <= 2
            /\ question_lower(NameA(question)) # question_lower(NameB(question)))
              => d_result = <<question_lower(NameA(question)),
                              question_lower(NameB(question))>>
        /\ NoComparisonPhrasing(question) => d_result = <<>>

\* "Compare Professor A and Professor B" has returned ("a", "b")
C18_Witness ==
    /\ dpc = "done"
    /\ question = Form1(<<"A">>, <<"B">>)
    /\ d_result = << <<"a">>, <<"b">> >>

\* the patterns that match the question, by their place in the list
Matching(q) ==
    {i \in 1..Len(patterns) : re_search(patterns[i], question_lower(q)).matched}

\* the patterns that match the question with entities that pass the validation
MatchingValid(q) ==
    {i \in Matching(q) : ValidEntities(re_search(patterns[i], question_lower(q)))}

First(S) == CHOOSE i \in S : \A j \in S : i <= j

GroupsOf(q, i) ==
    LET m == re_search(patterns[i], question_lower(q)) IN <<m.g1, m.g2>>

\* C19 (as stated): the first pattern that matches decides the result, its
\* entities if they pass the validation and None if they are rejected; with
\* no matching pattern the result is None
C19_FirstMatchDecides ==
    dpc = "done" =>
        d_result = IF Matching(question) = {} THEN <<>>
                   ELSE IF First(Matching(question)) \in MatchingValid(question)
                        THEN GroupsOf(question, First(Matching(question)))
                        ELSE <<>>

\* C19 (amended): the first pattern whose match passes the validation decides
\* the result; a pattern whose match is rejected is passed over, and with no
\* pattern matching with valid entities the result is None
C19_FirstValidMatchDecides ==
    dpc = "done" =>
        d_result = IF MatchingValid(question) = {} THEN <<>>
                   ELSE GroupsOf(question, First(MatchingValid(question)))

\* a later pattern has supplied the result after an earlier match was rejected
C19_Witness ==
    /\ dpc = "done"
    /\ d_result # <<>>
    /\ Matching(question) # {}
    /\ First(Matching(question)) \notin MatchingValid(question)

(* ------------------ claims on the retrieval of rag_answer -------------- *)
\* the known school contexts
KnownSchools == {"columbia_college", "columbia_engineering", "barnard"}

\* the source belongs to the tier of the school or is review content
InTierSource(sch, src) ==
    \/ src = "culpa.info - prof"
    \/ sch \in {"columbia_college", "columbia_engineering"}
         /\ src = "columbia_college_bulletin"
    \/ sch = "barnard" /\ src = "barnard_bulletin"

\* the request is on the tiered path: a plain question of a student of a
\* known school
TieredRequest == question # <<>> /\ Comparison = <<>> /\ school \in KnownSchools

\* the match list is ordered by similarity, descending
SortedBySimilarity(rs) ==
    \A i \in 1..(Len(rs) - 1) : rs[i].similarity >= rs[i + 1].similarity

\* no id occurs twice in the match list
DistinctIds(rs) == Cardinality(IdsOf(rs)) = Len(rs)

\* the k rows of the whole table that are most similar to the question
UnrestrictedTopK ==
    SelectTop(TableRows(corpus), "q", "q", TOP_K, Len(corpus), reversed)

\* C11: for a school value that is not a known context, rag_answer retrieves
\* with one unrestricted top-k query: the k most similar rows of the table,
\* whatever their source
C11_UnknownSchoolUnrestricted ==
    (rpc = "returned" /\ Comparison = <<>> /\ school \notin KnownSchools) =>
        /\ Len(issued) = 1
        /\ rows = UnrestrictedTopK

InTierRows == {r \in TableRows(corpus) : InTierSource(school, r.source)}

\* C13: on the tiered path, when the table holds at least TOP_K in-tier rows
\* (inclusion patterns or review content), the result consists of TOP_K such
\* rows only, ordered by similarity descending, and no backfill is made
C13_InTierOnly ==
    (rpc = "returned" /\ TieredRequest /\ Cardinality(InTierRows) >= TOP_K) =>
        /\ Len(rows) = TOP_K
        /\ \A i \in 1..Len(rows) : InTierSource(school, rows[i].source)
        /\ SortedBySimilarity(rows)
        /\ Len(issued) = 1

\* TOP_K in-tier rows were returned although a row outside the tier is more
\* similar to the question than one of them
C13_Witness ==
    /\ rpc = "returned"
    /\ TieredRequest
    /\ Len(rows) = TOP_K
    /\ \E r \in TableRows(corpus) \ InTierRows :
         \E i \in 1..Len(rows) : r.id < rows[i].id

\* C14: on the tiered path, when the in-tier query returned fewer than TOP_K
\* rows, rag_answer returns a list that contains every in-tier row, is filled
\* with rows of the backfill query, has at most TOP_K rows and no id twice
C14_BackfillFills ==
    (/\ rpc \in {"returned", "raised"}
     /\ TieredRequest
     /\ issued # <<>>
     /\ Len(school_rows) < TOP_K) =>
        /\ rpc = "returned"
        /\ IdsOf(school_rows) \subseteq IdsOf(rows)
        /\ IdsOf(rows) \subseteq IdsOf(school_rows) \cup IdsOf(general_rows)
        /\ Len(rows) <= TOP_K
        /\ DistinctIds(rows)

\* C15: a tiered query is never starved below TOP_K: when the table holds at
\* least TOP_K rows, the result has exactly TOP_K rows
C15_NeverStarved ==
    (/\ rpc \in {"returned", "raised"}
     /\ TieredRequest
     /\ Len(corpus) >= TOP_K) =>
        /\ rpc = "returned"
        /\ Len(rows) = TOP_K

\* the rows of the match list that mention the professor
AttributableTo(name) == {i \in 1..Len(rows) : name \in rows[i].content}

\* C16: on the comparison path the result holds at most TOP_K div 2 rows
\* attributable to each of the two professors, no id twice, and is ordered
\* by similarity descending
C16_FairComparison ==
    (rpc = "returned" /\ Comparison # <<>>) =>
        /\ Cardinality(AttributableTo(Comparison[1])) <= TOP_K \div 2
        /\ Cardinality(AttributableTo(Comparison[2])) <= TOP_K \div 2
        /\ DistinctIds(rows)
        /\ SortedBySimilarity(rows)

\* every statement executed so far came back without a row
ZeroRows == issued # <<>> /\ \A i \in 1..Len(issued) : issued[i].count = 0

\* C17: when the vector store returns zero rows, rag_answer returns normally
\* with an empty match list, and the response of chat() for it is not its
\* failure response
C17_EmptyResultIsNotFailure ==
    (ZeroRows /\ rpc \in {"backfill", "sort", "answer", "returned", "raised",
                          "responded"}) =>
        /\ rpc # "raised"
        /\ rows = <<>>
        /\ rpc = "responded" =>
              (response.status = 200 /\ "error" \notin response.keys)

\* the request is on the tiered path: a plain question and a school, so
\* that get_school_source_filter returns a filter
TieredPath == question # <<>> /\ school # "" /\ Comparison = <<>>

\* the statements of the log with the given name
IssuedAs(name) == {i \in 1..Len(issued) : issued[i].stmt = name}

ExcludedSource(src) ==
    /\ ILike(src, TextParam(CulpaPattern)) # "t"
    /\ \E j \in 1..Len(school_filter.excluded) :
          ILike(src, school_filter.excluded[j]) = "t"

\* no row of the list is of the excluded sibling tier
NoneExcluded(rs) == \A i \in 1..Len(rs) : ~ExcludedSource(rs[i].source)

\* C29: for a known school, on the tiered and on the comparison path, no row
\* that a query has fetched and no row of the match list has a source that
\* matches an excluded pattern of the school, unless it is review content;
\* in particular the backfill result holds no row of the excluded tier.
C29_NoExcludedTier ==
    school \in KnownSchools =>
        /\ NoneExcluded(rows)
        /\ NoneExcluded(school_rows)
        /\ NoneExcluded(general_rows)
        /\ NoneExcluded(prof1_rows)
        /\ NoneExcluded(prof2_rows)

\* a comparison for a student of a known school has returned rows, while the
\* table holds a row of the excluded tier that mentions the first professor
C29_Witness ==
    /\ rpc = "returned"
    /\ school \in KnownSchools
    /\ Comparison # <<>>
    /\ rows # <<>>
    /\ \E r \in TableRows(corpus) :
          ExcludedSource(r.source) /\ Comparison[1] \in r.mentions

(* ------------------------- embed_corpus claims ------------------------- *)
\* the calls of embed_documents made on batch b
CallsOn(b) == {i \in 1..Len(calls) : calls[i].batch = b}

\* the call log ends with a rate-limit failure
LastRateLimited ==
    /\ calls # <<>>
    /\ calls[Len(calls)].outcome = "rate_limit"

\* the run is giving up: it saves the checkpoint of the exhausted retry loop
\* or has raised
GivingUp == {"abort_vectors", "abort_progress", "raised"}

\* C20: a batch whose embedding call fails with a rate-limit signal is
\* retried as the same batch: the call after a rate-limited one is on the
\* same batch, the batches are called in order and none is passed over
\* without a successful call; the delay before the first retry is
\* retry_delay and each later delay doubles the one before; no batch is
\* attempted more than max_retries = 5 times, and the run gives up on a rate
\* limit exactly when the batch has been attempted max_retries times.
C20_RateLimitRetry ==
    /\ \A i \in 1..(Len(calls) - 1) :
          /\ calls[i].outcome = "rate_limit" => calls[i + 1].batch = calls[i].batch
          /\ calls[i + 1].batch \in {calls[i].batch, calls[i].batch + 1}
          /\ calls[i + 1].batch = calls[i].batch + 1 => calls[i].outcome = "ok"
    /\ LastRateLimited => epc \in {"try", "killed"} \cup GivingUp
    /\ (LastRateLimited /\ epc = "try") =>
          batch_idx + 1 = calls[Len(calls)].batch
    /\ \A j \in 1..Len(waits) :
          waits[j] = IF j = 1 THEN retry_delay ELSE 2 * waits[j - 1]
    /\ epc = "try" => Len(waits) = attempt
    /\ \A b \in 1..NumBatches(n_chunks, batch_size) :
          Cardinality(CallsOn(b)) <= max_retries
    /\ (LastRateLimited /\ epc # "killed") =>
          (epc \in GivingUp <=>
              Cardinality(CallsOn(calls[Len(calls)].batch)) = max_retries)

\* a second batch was rate limited five times, after delays of 2, 4, 8 and
\* 16, and the run gave up
C20_Witness ==
    /\ epc = "raised"
    /\ LastRateLimited
    /\ calls[Len(calls)].batch = 2
    /\ calls[1] = [batch |-> 1, outcome |-> "rate_limit"]
    /\ waits = <<2, 4, 8, 16>>
    /\ Cardinality(CallsOn(2)) = 5

\* the retries of a batch were exhausted and the run has raised
Exhausted == epc = "raised" /\ LastRateLimited

\* C21: when the retries of a batch are exhausted and the run has aborted,
\* both checkpoint files are on disk (the checkpoint was not cleared), the
\* vector file holds the vectors collected so far and the progress marker
\* matches it: it states as many chunks as the file has vectors.
C21_ExhaustionCheckpoint ==
    Exhausted =>
        /\ CheckpointFound
        /\ checkpoint.vectors = vectors
        /\ checkpoint.processed_count = processed_count
        /\ checkpoint.processed_count = Len(checkpoint.vectors)

\* the checkpoint files are those of a run on the same chunks that was
\* stopped after a completed batch, the last and possibly partial one
\* included: the vectors of the chunks up to the end of that batch, and their
\* number as the marker
AfterCompletedBatch ==
    /\ CheckpointFound
    /\ checkpoint.vectors = AllVectors(checkpoint.processed_count)
    /\ \E b \in 1..NumBatches(n_chunks, batch_size) :
          checkpoint.processed_count = Min2(b * batch_size, n_chunks)

\* C22: a run that resumes from the checkpoint of a run stopped after a
\* completed batch skips exactly the batches reflected in the processed-count
\* marker: it goes on behind the last batch whose chunks the marker counts,
\* with the vectors of the chunks before it, so that its final vectors are
\* those of an uninterrupted run.
C22_ResumeSkipsCompleted ==
    [][(LoadCheckpoint /\ AfterCompletedBatch) =>
          /\ batch_idx' = NumBatches(checkpoint.processed_count, batch_size)
          /\ vectors' = AllVectors(Min2(batch_idx' * batch_size, n_chunks))]_vars

\* C25: wherever the run is (and so wherever it can be stopped), when both
\* checkpoint files are on disk the vector file has exactly as many vectors
\* as the progress marker states.
C25_CheckpointFilesAgree ==
    CheckpointFound => Len(checkpoint.vectors) = checkpoint.processed_count

\* C26: whenever embed_corpus returns normally, the embeddings have exactly
\* one row per chunk and row i is the vector of chunk i.
C26_ResultMatchesChunks ==
    epc = "done" => vectors = AllVectors(n_chunks)

(* ---------------------------- upload claims ---------------------------- *)
\* a row without its created_at
Stored(r) == [id |-> r.id, content |-> r.content, source |-> r.source,
              model |-> r.model, embedding |-> r.embedding]

\* the bundle was uploaded twice and both runs committed
UploadedTwice ==
    /\ Len(snapshots) >= 3
    /\ snapshots[2].committed
    /\ snapshots[3].committed

TableBefore == snapshots[Len(snapshots) - 1].rows

\* C30: after a run of upload_culpa_embeddings.py whose batch insert failed,
\* the documents table is as it was before the run started, the stored
\* review rows included; and no run deletes a row whose source does not
\* start with 'culpa.info'.
C30_CulpaReplaceAtomic ==
    (script = "upload_culpa_embeddings" /\ upc = "failed") =>
        /\ documents = TableBefore
        /\ \A r \in TableBefore :
              ~LikeCulpa(r.source) => \E q \in documents : q.id = r.id

(* ------------- sentence_chunk_text: source order, coverage ------------- *)
\* the non-empty parts of one sentence in order, each as the span lo..hi of
\* the sentence it was cut from (ps: the pieces of re.split not yet taken,
\* off: the characters before them)
RECURSIVE PartSpans(_, _, _)
PartSpans(ps, s, off) ==
    IF ps = <<>> THEN <<>>
    ELSE (IF strip(Head(ps)) # <<>>
          THEN << [s |-> s, lo |-> off + 1, hi |-> off + Len(Head(ps))] >>
          ELSE <<>>)
         \o PartSpans(Tail(ps), s, off + Len(Head(ps)))

RECURSIVE SpansFrom(_, _)
SpansFrom(ss, s) ==
    IF s > Len(ss) THEN <<>>
    ELSE PartSpans(re_split(ss[s]), s, 0) \o SpansFrom(ss, s + 1)

\* the non-empty parts of the whole text in source order
TextParts(ss) == SpansFrom(ss, 1)

\* the text with one part made recognisable: its letters become "p", the
\* separators outside it become ";" (the chunker treats "," and ";" alike
\* and never looks at a letter)
MarkChar(c, inpart) ==
    IF IsSpace(c) THEN c
    ELSE IF IsSep(c) THEN (IF inpart THEN "," ELSE ";")
    ELSE IF inpart THEN "p" ELSE "a"

Mark(ss, sp) ==
    [s \in DOMAIN ss |->
        [g \in DOMAIN ss[s] |->
            MarkChar(ss[s][g], s = sp.s /\ sp.lo <= g /\ g <= sp.hi)]]

UnmarkChar(c) == IF c = "p" THEN "a" ELSE IF c = ";" THEN "," ELSE c

Unmark(out) == [i \in DOMAIN out |-> [g \in DOMAIN out[i] |-> UnmarkChar(out[i][g])]]

\* the passages the running copy returns for the text ss
Chunked(ss) ==
    IF impl = "src"
    THEN sentence_chunk_text(ss, min_chars, max_chars, overlap_chars)
    ELSE sentence_chunk_text_backend(ss, max_chars, overlap_chars, min_chars)

\* the marked part as the chunker takes it: part.strip()
MarkedPart(ss, sp) == strip(SubSeq(Mark(ss, sp)[sp.s], sp.lo, sp.hi))

HasMark(passage) == \E g \in DOMAIN passage : passage[g] \in {"p", ","}

\* the index of the first passage with text of the marked part
\* (Len(out) + 1 when no passage has any)
FirstMarked(out) ==
    IF \E i \in DOMAIN out : HasMark(out[i])
    THEN CHOOSE i \in DOMAIN out :
            /\ HasMark(out[i])
            /\ \A j \in 1..(i - 1) : ~HasMark(out[j])
    ELSE Len(out) + 1

FirstPassageOf(sp) == FirstMarked(Chunked(Mark(sentences, sp)))

\* C27: the returned passages are in source order: when part p precedes
\* part q in the text, the first passage with text of p is not later than
\* the first passage with text of q, hard-sliced parts included.
C27_SourceOrder ==
    pc = "done" =>
        LET tp == TextParts(sentences)
        IN  \A i, j \in DOMAIN tp :
                i < j => FirstPassageOf(tp[i]) <= FirstPassageOf(tp[j])

IsSub(p, x) == \E k \in 0..(Len(x) - Len(p)) : SubSeq(x, k + 1, k + Len(p)) = p

InSome(p, out) == \E i \in DOMAIN out : IsSub(p, out[i])

\* the part is in a passage whole, or its hard slices part[:max_chars],
\* then those of part[max_chars:].strip(), are
RECURSIVE Covered(_, _)
Covered(p, out) ==
    \/ InSome(p, out)
    \/ /\ Len(p) > max_chars
       /\ InSome(strip(PySlice(p, 0, max_chars)), out)
       /\ Covered(SliceRest(p, max_chars), out)

\* C28: no data is dropped: every non-empty part of the text (a piece
\* between separators, or a separator) is in some returned passage, whole
\* or as its consecutive hard slices, for all min_chars, max_chars >= 1 and
\* overlap_chars.
C28_NoPartDropped ==
    pc = "done" =>
        LET tp == TextParts(sentences)
        IN  \A i \in DOMAIN tp :
                LET out == Chunked(Mark(sentences, tp[i]))
                IN  /\ Unmark(out) = chunks
                    /\ Covered(MarkedPart(sentences, tp[i]), out)

\* a run that hard-sliced one part and packed another
C28_Witness ==
    /\ pc = "done"
    /\ Len(chunks) >= 2
    /\ LET tp == TextParts(sentences)
       IN  /\ Len(tp) >= 2
           /\ \E i \in DOMAIN tp : Len(MarkedPart(sentences, tp[i])) > max_chars
           /\ \E i \in DOMAIN tp : Len(MarkedPart(sentences, tp[i])) <= max_chars

================================================================
